---- MODULE Spec2Model ----
(***************************************************************************)
(* The audio-thread -> GUI-thread sample stream of iced_audio              *)
(* (src/core/audio_to_gui_stream.rs) and the per-frame detector read.      *)
(*                                                                         *)
(* The stream is a ringbuf::RingBuffer<f32> split into a Producer (audio   *)
(* thread) and a Consumer (UI thread).  The ring keeps capacity + 1 slots  *)
(* and two atomic cursors: head (next slot to read, stored only by the     *)
(* consumer) and tail (next slot to write, stored only by the producer).   *)
(* One slot always stays vacant, so head = tail means "empty".             *)
(*                                                                         *)
(* Samples are modelled by their sequence number in the total input:       *)
(* the i-th sample ever offered to Producer::write is the value i.  A slot *)
(* that was never written holds 0.                                         *)
(***************************************************************************)
EXTENDS Integers, Sequences, FiniteSets, TLC

\* Ring capacity.  4096 in the source; scaled down for model checking.
RING_BUF_SIZE == 3

\* Total number of samples the audio thread offers in one behaviour.
MaxSamples == 6

\* Longest slice handed to one Producer::write call.
MaxWrite == 4

VARIABLES
    data,       \* the ring's storage, slot index -> sample
    head,       \* atomic read cursor
    tail,       \* atomic write cursor
    ppc,        \* producer position: "idle" | "copy"
    pData,      \* `data` argument of the write in flight
    pFree,      \* vacant slots the write in flight may fill, in order
    pN,         \* samples of pData copied so far
    cpc,        \* consumer position: "idle" | "read"
    cIdx1,      \* slot indices of the first slice of the access in flight
    cIdx2,      \* slot indices of the second slice
    cS1,        \* samples the callback has read from the first slice
    cS2,        \* samples the callback has read from the second slice
    s1,         \* first slice seen by the last completed read_access
    s2,         \* second slice seen by the last completed read_access
    offered,    \* history: number of samples offered to write so far
    accepted,   \* history: the samples push_slice stored, in order
    dropped,    \* history: number of samples push_slice did not store
    droppedFit, \* history: those of them that came from a write of at most RING_BUF_SIZE samples
    discarded,  \* history: number of stored samples discarded by clear
    clearMark,  \* history: samples offered by writes that returned before the last clear
    cDirty,     \* history: the producer or clear acted during the access in flight
    quietRun,   \* history: completed accesses in a row with no write or clear (capped at 2)
    handedSinceClear,   \* history: samples handed to the detector since the last clear
    handedBeforeClear,  \* history: samples handed to the detector before the last clear
    unprocessed,    \* history: a write returned and no process call has run since
    allProcessed,   \* history: every write began after a process call followed the previous one
    uncleared,      \* history: a write returned and clear has not run since
    allCleared      \* history: every write began after clear followed the previous one

\* Observation of the last call made on a db_meter detector.
VARIABLES
    call,       \* "none" | "calc_peak_db" | "process" | "update_sample_rate" | "clear"
    in_left,    \* the slices (s1, s2): arguments of calc_peak_db, or the left stream's batch
    in_right,   \* the right stream's batch (s1, s2) of process, None without a right stream
    output,     \* the DetectorOutput returned by process
    peak_db     \* Some(result) of a direct calc_peak_db call

\* The db_meter PeakRmsDetector.
VARIABLES
    sample_rate,        \* PeakRmsDetector.sample_rate
    rms_block_size,     \* PeakRmsDetector.rms_block_size: blocks per RMS window
    rms_window_size,    \* PeakRmsDetector.rms_window_size: samples per RMS window
                        \* (one_over_rms_window_size is its reciprocal)
    left_rms_cache,     \* None or Some(RmsCache)
    right_rms_cache,    \* None or Some(RmsCache)
    rms_panicked,       \* a slice index of rms_db was out of range: the call panicked
    rms_calls,          \* history: number of process calls made
    fed_left,           \* history: samples passed to rms_db for the left cache since its reset
    fed_right,          \* history: the same for the right cache
    amp_left,           \* history: their common magnitude (0: none fed, -1: they differ)
    amp_right,          \* history: the same for the right cache
    stream_left         \* history: the samples passed to rms_db for the left cache
                        \* since its reset, in arrival order

\* The oscilloscope: a DefaultDetector behind an Animator, and the State
\* of the Oscilloscope widget it plots into.
VARIABLES
    params,             \* DefaultDetector.params: window_size, sample_rate, gain, phase, mode
    left_channel,       \* None or Some(Channel): buffer, latest_window_phase, buffer_i
    right_channel,      \* None or Some(Channel)
    temp_plots,         \* None or Some(<<temp_left_plot, temp_right_plot>>)
    left_plot,          \* State.left_plot
    right_plot,         \* State.right_plot: None or Some(plot)
    left_active,        \* State.left_active
    right_active,       \* State.right_active
    scope_call,         \* the latest call on the Animator: op and skip_plotting
    unskipped,          \* history: the channels as the latest update would have left
                        \* them had it been called with skip_plotting = false
    scope_fed_left,     \* history: samples read from the left stream so far
    scope_fed_right,    \* history: samples read from the right stream so far
    scope_changes,      \* history: calls of the setters and of clear so far
    due,                \* history: do_write of the left and of the right channel in
                        \* the latest call
    scope_due_left,     \* history: calls so far in which do_write was true of the
                        \* left channel
    scope_written_left  \* history: samples written to the left channel since it was
                        \* created or cleared

\* The scrolling waveform view: a PeakDetector behind an Animator, and the
\* State of the RtWaveView widget it plots into.
VARIABLES
    wave_params,        \* PeakDetector.params: gain, mode, sample_rate, window_size
    wave_left_plot,     \* State.left_plot: a Plot (buffer of PlotPoints, start_index)
    wave_right_plot,    \* State.right_plot: None or Some(Plot)
    wave_left_active,   \* State.left_active
    wave_right_active,  \* State.right_active
    wave_call,          \* the latest call on the Animator: op and skip_plotting
    wave_fed            \* history: samples read from the left stream so far

ringVars == <<data, head, tail>>
prodVars == <<ppc, pData, pFree, pN>>
consVars == <<cpc, cIdx1, cIdx2, cS1, cS2, s1, s2>>
histVars == <<offered, accepted, dropped, droppedFit, discarded, clearMark, cDirty, quietRun,
              handedSinceClear, handedBeforeClear,
              unprocessed, allProcessed, uncleared, allCleared>>
peakVars == <<call, in_left, in_right, output, peak_db>>
rmsVars == <<sample_rate, rms_block_size, rms_window_size, left_rms_cache, right_rms_cache,
             rms_panicked, rms_calls, fed_left, fed_right, amp_left, amp_right,
             stream_left>>
scopeVars == <<params, left_channel, right_channel, temp_plots, left_plot, right_plot,
               left_active, right_active, scope_call, unskipped, scope_fed_left, scope_fed_right,
               scope_changes, due, scope_due_left, scope_written_left>>
waveVars == <<wave_params, wave_left_plot, wave_right_plot, wave_left_active,
              wave_right_active, wave_call, wave_fed>>
detVars == <<peakVars, rmsVars, scopeVars, waveVars>>
vars == <<ringVars, prodVars, consVars, histVars, detVars>>

----------------------------------------------------------------------------
\* Helpers

Min(a, b) == IF a < b THEN a ELSE b

\* The sequence <<a, a+1, ..., b-1>> (a Rust range a..b).
Range(a, b) == [i \in 1..(b - a) |-> a + i - 1]

SeqSet(s) == {s[i] : i \in 1..Len(s)}

IsPrefix(s, t) == Len(s) <= Len(t) /\ \A i \in 1..Len(s) : s[i] = t[i]

\* Fault: the ring is built one slot too large, new(RING_BUF_SIZE + 1).
SlotsOneMore == RING_BUF_SIZE + 2

\* Fault: the ring is built one slot too small, new(RING_BUF_SIZE - 1).
SlotsOneLess == RING_BUF_SIZE

\* ringbuf::RingBuffer::new(RING_BUF_SIZE) allocates capacity + 1 slots.
Slots == RING_BUF_SIZE + 1

\* ringbuf capacity(): slots - 1.
capacity == Slots - 1

\* Consumer::len -> ringbuf len(): (tail + slots - head) % slots.
len(h, t) == (t + Slots - h) % Slots

\* Fault: the write ignores the read cursor and takes every slot from tail on.
PushRangesAll(h, t) == Range(t, Slots) \o Range(0, t)

\* Fault: the write fills the slot that must stay vacant.
PushRangesNoGap(h, t) ==
    IF t >= h THEN Range(t, Slots) \o Range(0, h) ELSE Range(t, h)

\* ringbuf push_access: the vacant slots for cursors (h, t), in write order.
PushRanges(h, t) ==
    IF t >= h
    THEN IF h > 0
         THEN Range(t, Slots) \o Range(0, h - 1)
         ELSE IF t < Slots - 1 THEN Range(t, Slots - 1) ELSE <<>>
    ELSE IF t < h - 1 THEN Range(t, h - 1) ELSE <<>>

\* Fault: the access forgets the wrapped part of the occupied slots.
AccessRangesNoWrap(h, t) ==
    IF h < t THEN <<Range(h, t), <<>>>>
    ELSE IF h > t THEN <<Range(h, Slots), <<>>>>
    ELSE <<<<>>, <<>>>>

\* ringbuf access: the occupied slots for cursors (h, t) as two ranges,
\* the first holding the older elements.
AccessRanges(h, t) ==
    IF h < t THEN <<Range(h, t), <<>>>>
    ELSE IF h > t THEN <<Range(h, Slots), Range(0, t)>>
    ELSE <<<<>>, <<>>>>

\* The samples stored in the slots idx.
Contents(idx) == [i \in 1..Len(idx) |-> data[idx[i]]]

\* What a read_access would see right now: both slices, concatenated.
Visible == Contents(AccessRanges(head, tail)[1] \o AccessRanges(head, tail)[2])

\* The stored samples that clear has not discarded.
Unread == SubSeq(accepted, discarded + 1, Len(accepted))

----------------------------------------------------------------------------
\* Option<T>: None, or Some(x).
None == <<>>
Some(x) == <<x>>

\* DetectorOutput::empty(): no value for any peak or bar.
DetectorOutputEmpty ==
    [left_peak_db |-> None, left_bar_db |-> None,
     right_peak_db |-> None, right_bar_db |-> None]

\* No call has been made on the PeakDetector yet.
InitPeak ==
    /\ call = "none"
    /\ in_left = <<<<>>, <<>>>>
    /\ in_right = None
    /\ output = DetectorOutputEmpty
    /\ peak_db = None

\* PeakRmsDetector::new()
InitRms ==
    /\ sample_rate = 0
    /\ rms_block_size = 0
    /\ rms_window_size = 0
    /\ left_rms_cache = None
    /\ right_rms_cache = None
    /\ rms_panicked = FALSE
    /\ rms_calls = 0
    /\ fed_left = 0 /\ fed_right = 0
    /\ amp_left = 0 /\ amp_right = 0
    /\ stream_left = <<>>

\* Plot resolution given to State::new.
ScopeResolution == 2

\* Window sizes (seconds) and sample rates (Hz) given to the detector,
\* scaled down so that a window is a few samples long.
ScopeWindowSizes == {1, 2}
ScopeSampleRates == {2, 3}

\* Mode
Modes == {"MonoOrLeftOnly", "RightOnly", "Dual", "StereoToMono"}

\* Phases within a window (latest_window_phase, params.phase) are counted
\* in units of 1 / PhaseDen: the least number every window length divides.
PhaseDen ==
    LET Ok(d) == \A w \in ScopeWindowSizes, r \in ScopeSampleRates : d % (w * r) = 0
        D == 1..144
    IN  CHOOSE d \in D : Ok(d) /\ \A e \in D : Ok(e) => d <= e

\* Plot positions are counted in units of 1 / PlotDen of a sample, and plot
\* values in units of 1 / PlotDen.
PlotDen == PhaseDen * ScopeResolution

\* Capacity of a BMRingBuf of the asked length: the next power of two.
NextPow2(n) == CHOOSE c \in {1, 2, 4, 8, 16, 32, 64} : c >= n /\ (c = 1 \/ c \div 2 < n)

\* (window_size * 2.0 * sample_rate) as usize
BufferSize(p) == p.window_size * 2 * p.sample_rate

\* BMRingBuf::from_len(n): zeros.
FromLen(n) == [i \in 1..NextPow2(n) |-> 0]

\* BMRingBuf::set_len(n): the data is truncated or extended by zeros.
SetLen(buffer, n) ==
    [i \in 1..NextPow2(n) |-> IF i <= Len(buffer) THEN buffer[i] ELSE 0]

\* Channel { buffer: from_len(buffer_size), latest_window_phase: 0.0, buffer_i: 0 }
NewChannel(n) == [buffer |-> FromLen(n), latest_window_phase |-> 0, buffer_i |-> 0]

\* What allocate_buffers does to a channel that the mode uses.
AllocatedChannel(channel, n) ==
    IF channel # None
    THEN Some([channel[1] EXCEPT !.buffer = SetLen(channel[1].buffer, n)])
    ELSE Some(NewChannel(n))

\* Fault: a channel the new mode does not use is kept.
allocate_buffersKeepUnused(p, lc, rc) ==
    [left_channel  |-> IF p.mode = "RightOnly" THEN lc
                       ELSE AllocatedChannel(lc, BufferSize(p)),
     right_channel |-> IF p.mode = "MonoOrLeftOnly" THEN rc
                       ELSE AllocatedChannel(rc, BufferSize(p)),
     temp_plots    |-> IF p.mode = "StereoToMono" THEN Some(<<<<>>, <<>>>>) ELSE None]

\* DefaultDetector::allocate_buffers for params p and the present channels.
allocate_buffers(p, lc, rc) ==
    [left_channel  |-> IF p.mode = "RightOnly" THEN None
                       ELSE AllocatedChannel(lc, BufferSize(p)),
     right_channel |-> IF p.mode = "MonoOrLeftOnly" THEN None
                       ELSE AllocatedChannel(rc, BufferSize(p)),
     temp_plots    |-> IF p.mode = "StereoToMono" THEN Some(<<<<>>, <<>>>>) ELSE None]

\* DefaultDetector::new(p...) behind Animator::new, and State::new(resolution, dual_plots).
ScopeConstructed(p, dual_plots) ==
    /\ params = p
    /\ left_channel = allocate_buffers(p, None, None).left_channel
    /\ right_channel = allocate_buffers(p, None, None).right_channel
    /\ temp_plots = allocate_buffers(p, None, None).temp_plots
    /\ left_plot = [i \in 1..ScopeResolution |-> 0]
    /\ right_plot = IF dual_plots THEN Some([i \in 1..ScopeResolution |-> 0]) ELSE None
    /\ left_active = FALSE
    /\ right_active = FALSE
    /\ scope_call = [op |-> "new", skip_plotting |-> FALSE]
    /\ unskipped = <<left_channel, right_channel>>
    /\ scope_fed_left = 0
    /\ scope_fed_right = 0
    /\ scope_changes = 0
    /\ due = <<FALSE, FALSE>>
    /\ scope_due_left = 0
    /\ scope_written_left = 0

\* One oscilloscope, for the behaviours that do not use it.
InitScope ==
    ScopeConstructed([window_size |-> 1, sample_rate |-> 2, gain |-> 1, phase |-> 0,
                      mode |-> "MonoOrLeftOnly"], FALSE)

\* Points of a waveform plot.
WaveResolution == 2

\* PlotPoint::default()
DefaultPlotPoint == [max |-> 0, min |-> 0]

\* Plot::new(resolution): SliceRB::from_len(resolution), start_index 0.
PlotNew(resolution) ==
    [buffer |-> [i \in 1..resolution |-> DefaultPlotPoint], start_index |-> 0]

\* PeakDetector::new(gain, mode, sample_rate, window_size) behind
\* Animator::new, and State::new(resolution, dual_plots) of the RtWaveView.
WaveConstructed(p, dual_plots) ==
    /\ wave_params = p
    /\ wave_left_plot = PlotNew(WaveResolution)
    /\ wave_right_plot = IF dual_plots THEN Some(PlotNew(WaveResolution)) ELSE None
    /\ wave_left_active = FALSE
    /\ wave_right_active = FALSE
    /\ wave_call = [op |-> "new", skip_plotting |-> FALSE]
    /\ wave_fed = 0

\* One waveform view, for the behaviours that do not use it.
InitWave ==
    WaveConstructed([gain |-> 1, mode |-> "MonoOrLeftOnly", sample_rate |-> 4,
                     window_size |-> 1], FALSE)

InitDetectors ==
    /\ InitPeak
    /\ InitRms
    /\ InitScope
    /\ InitWave

\* The stream right after audio_to_gui_stream::new().
InitStream ==
    /\ data = [i \in 0..(Slots - 1) |-> 0]
    /\ head = 0
    /\ tail = 0
    /\ ppc = "idle" /\ pData = <<>> /\ pFree = <<>> /\ pN = 0
    /\ cpc = "idle" /\ cIdx1 = <<>> /\ cIdx2 = <<>> /\ cS1 = <<>> /\ cS2 = <<>>
    /\ s1 = <<>> /\ s2 = <<>>
    /\ offered = 0 /\ accepted = <<>> /\ dropped = 0 /\ droppedFit = 0 /\ discarded = 0
    /\ clearMark = 0 /\ cDirty = FALSE /\ quietRun = 0
    /\ handedSinceClear = {} /\ handedBeforeClear = {}
    /\ unprocessed = FALSE /\ allProcessed = TRUE
    /\ uncleared = FALSE /\ allCleared = TRUE

Init ==
    /\ InitStream
    /\ InitDetectors

\* History bookkeeping of any step of the producer: it disturbs the access
\* in flight and ends a run of undisturbed accesses.
ProducerActs ==
    /\ cDirty' = (cDirty \/ cpc = "read")
    /\ quietRun' = 0

\* Producer::write(data), entry: push_slice loads both cursors and takes the
\* vacant slots.  The slice is the next k samples of the input.
write_begin(k) ==
    /\ ppc = "idle"
    /\ offered + k <= MaxSamples
    /\ ppc' = "copy"
    /\ pData' = [i \in 1..k |-> offered + i]
    /\ pFree' = PushRanges(head, tail)
    /\ pN' = 0
    /\ offered' = offered + k
    /\ allProcessed' = (allProcessed /\ ~unprocessed)
    /\ allCleared' = (allCleared /\ ~uncleared)
    /\ ProducerActs
    /\ UNCHANGED detVars
    /\ UNCHANGED <<ringVars, consVars, accepted, dropped, droppedFit, discarded, clearMark,
                   handedSinceClear, handedBeforeClear, unprocessed, uncleared>>

\* Fault: a slice that does not fit as a whole is not stored at all.
PushCountAllOrNothing(free, src) ==
    IF Len(src) <= Len(free) THEN Len(src) ELSE 0

\* Number of samples push_slice copies: as many as fit.
PushCount(free, src) == Min(Len(free), Len(src))

\* push_slice copies one sample into the next vacant slot.
write_copy ==
    /\ ppc = "copy"
    /\ pN < PushCount(pFree, pData)
    /\ data' = [data EXCEPT ![pFree[pN + 1]] = pData[pN + 1]]
    /\ pN' = pN + 1
    /\ ProducerActs
    /\ UNCHANGED detVars
    /\ UNCHANGED <<head, tail, ppc, pData, pFree, consVars,
                   offered, accepted, dropped, droppedFit, discarded, clearMark,
                   handedSinceClear, handedBeforeClear,
                   unprocessed, allProcessed, uncleared, allCleared>>

\* Fault: write retries until every sample of its input is stored.
write_returns_when_all_stored(n, free, src) == n = Len(src)

\* write returns after its single push_slice call, whether or not every
\* sample was stored: it never retries or waits for room.
write_returns(n, free, src) == n = PushCount(free, src)

\* push_slice publishes the copied samples by storing the new tail and
\* returns their number; write ignores it (a warning in debug builds).
write_end ==
    /\ ppc = "copy"
    /\ write_returns(pN, pFree, pData)
    /\ tail' = IF pN > 0 THEN (tail + pN) % Slots ELSE tail
    /\ ppc' = "idle"
    /\ accepted' = accepted \o SubSeq(pData, 1, pN)
    /\ dropped' = dropped + (Len(pData) - pN)
    /\ droppedFit' = IF Len(pData) <= RING_BUF_SIZE
                     THEN droppedFit + (Len(pData) - pN) ELSE droppedFit
    /\ unprocessed' = TRUE
    /\ uncleared' = TRUE
    /\ ProducerActs
    /\ UNCHANGED detVars
    /\ UNCHANGED <<data, head, pData, pFree, pN, consVars,
                   offered, discarded, clearMark,
                   handedSinceClear, handedBeforeClear, allProcessed, allCleared>>

\* Consumer::read_access, entry: access loads both cursors and builds the
\* two slices; the detector's closure then runs over them.
read_access_begin ==
    /\ cpc = "idle"
    /\ cpc' = "read"
    /\ cIdx1' = AccessRanges(head, tail)[1]
    /\ cIdx2' = AccessRanges(head, tail)[2]
    /\ cS1' = <<>>
    /\ cS2' = <<>>
    /\ cDirty' = (ppc # "idle")
    /\ UNCHANGED detVars
    /\ UNCHANGED <<ringVars, prodVars, s1, s2,
                   offered, accepted, dropped, droppedFit, discarded, clearMark, quietRun,
                   handedSinceClear, handedBeforeClear,
                   unprocessed, allProcessed, uncleared, allCleared>>

\* The closure reads the next sample of s1, then of s2.
read_access_slot ==
    /\ cpc = "read"
    /\ \/ /\ Len(cS1) < Len(cIdx1)
          /\ cS1' = Append(cS1, data[cIdx1[Len(cS1) + 1]])
          /\ cS2' = cS2
       \/ /\ Len(cS1) = Len(cIdx1)
          /\ Len(cS2) < Len(cIdx2)
          /\ cS2' = Append(cS2, data[cIdx2[Len(cS2) + 1]])
          /\ cS1' = cS1
    /\ UNCHANGED detVars
    /\ UNCHANGED <<ringVars, prodVars, cpc, cIdx1, cIdx2, s1, s2, histVars>>

\* Fault: the access pops what it exposed (pop_access instead of access).
AfterAccessPop(h, n) == (h + n) % Slots

\* The read cursor after an access that exposed n samples: access (unlike
\* pop_access) gives immutable access and leaves the cursor where it was.
AfterAccess(h, n) == h

\* The closure returns: the detector's process call has been handed the
\* batch (s1, s2).  Nothing is removed from the ring.
read_access_end ==
    /\ cpc = "read"
    /\ Len(cS1) = Len(cIdx1)
    /\ Len(cS2) = Len(cIdx2)
    /\ cpc' = "idle"
    /\ s1' = cS1
    /\ s2' = cS2
    /\ head' = AfterAccess(head, Len(cS1) + Len(cS2))
    /\ quietRun' = IF cDirty THEN 0 ELSE Min(quietRun + 1, 2)
    /\ handedSinceClear' = handedSinceClear \cup SeqSet(cS1 \o cS2)
    /\ unprocessed' = (unprocessed /\ cDirty)
    /\ UNCHANGED detVars
    /\ UNCHANGED <<data, tail, prodVars, cIdx1, cIdx2, cS1, cS2,
                   offered, accepted, dropped, droppedFit, discarded, clearMark, cDirty,
                   handedBeforeClear, allProcessed, uncleared, allCleared>>

\* Fault: clear asks discard for one element too few.
ClearCountShort == capacity - 1

\* The count Consumer::clear passes to discard.
ClearCount == capacity

\* ringbuf discard(n): drops min(n, len) elements by advancing head.
DiscardCount(n, h, t) == Min(n, len(h, t))

\* Consumer::clear: discard(capacity()).
clear ==
    /\ cpc = "idle"
    /\ head' = (head + DiscardCount(ClearCount, head, tail)) % Slots
    /\ discarded' = discarded + DiscardCount(ClearCount, head, tail)
    /\ clearMark' = offered - (IF ppc = "idle" THEN 0 ELSE Len(pData))
    /\ quietRun' = 0
    /\ handedSinceClear' = {}
    /\ handedBeforeClear' = handedBeforeClear \cup handedSinceClear
    /\ uncleared' = (uncleared /\ ppc # "idle")
    /\ UNCHANGED detVars
    /\ UNCHANGED <<data, tail, prodVars, consVars,
                   offered, accepted, dropped, droppedFit, cDirty,
                   unprocessed, allProcessed, allCleared>>

Next ==
    \/ \E k \in 0..MaxWrite : write_begin(k)
    \/ write_copy
    \/ write_end
    \/ read_access_begin
    \/ read_access_slot
    \/ read_access_end
    \/ clear

Spec == Init /\ [][Next]_vars

----------------------------------------------------------------------------
TypeOK ==
    /\ head \in 0..(Slots - 1)
    /\ tail \in 0..(Slots - 1)
    /\ ppc \in {"idle", "copy"}
    /\ cpc \in {"idle", "read"}
    /\ Len(accepted) + dropped = offered - (IF ppc = "idle" THEN 0 ELSE Len(pData))

----------------------------------------------------------------------------
\* Properties of the stream

\* A read_access step has just returned to its caller.
AccessReturns == cpc = "read" /\ cpc' = "idle"

\* C1: when no write has ever been given more samples than the ring had
\* room for, a read_access that runs with the producer idle yields exactly
\* the written samples that clear has not discarded, in write order, as
\* s1 ++ s2.
C1_ReadYieldsWritten ==
    [][(AccessReturns /\ ~cDirty /\ dropped = 0)
          => s1' \o s2' = Range(discarded + 1, offered + 1)]_vars

\* C1 witness: an undisturbed access has returned a full ring that wraps,
\* so both slices are non-empty, and nothing was ever dropped.
C1_Witness ==
    /\ cpc = "idle" /\ quietRun >= 1 /\ dropped = 0
    /\ s1 # <<>> /\ s2 # <<>>
    /\ Len(s1) + Len(s2) = RING_BUF_SIZE
    /\ s1 \o s2 = Range(discarded + 1, offered + 1)

\* C2: while a read_access is in flight the producer writes none of the
\* slots the access covers, and whatever the producer does meanwhile, the
\* slices the access returns are written samples (never an unwritten slot),
\* in order, starting at the oldest unread sample: a prefix of the unread
\* samples, possibly without the newest ones.
C2_InterleavedReadIsPrefix ==
    [][/\ cpc = "read" => \A i \in SeqSet(cIdx1 \o cIdx2) : data'[i] = data[i]
       /\ AccessReturns => /\ IsPrefix(s1' \o s2', Unread')
                            /\ 0 \notin SeqSet(s1' \o s2')]_vars

\* C2 witness: an access that overlapped a write has returned both slices
\* and misses samples the producer appended meanwhile.
C2_Witness ==
    /\ cpc = "idle" /\ cDirty
    /\ s1 # <<>> /\ s2 # <<>>
    /\ IsPrefix(s1 \o s2, Unread)
    /\ Len(s1) + Len(s2) < Len(Unread)

\* C3 as claimed: with nothing discarded by clear, the ring retains the
\* newest min(capacity, total) samples of the total input.
C3_RetainsNewest ==
    (ppc = "idle" /\ discarded = 0)
        => Visible = Range(offered - Min(RING_BUF_SIZE, offered) + 1, offered + 1)

\* C3 amended: a write given more samples than there is room for stores
\* the ones that fit and drops the rest of its input; with nothing
\* discarded by clear, the ring retains the oldest min(capacity, total)
\* samples of the total input and every later sample has been dropped.
C3_RetainsOldest ==
    (ppc = "idle" /\ discarded = 0)
        => /\ Visible = Range(1, Min(RING_BUF_SIZE, offered) + 1)
           /\ dropped = offered - Min(RING_BUF_SIZE, offered)

\* C3 witness: writes have overflowed a ring that was never cleared.
C3_Witness ==
    /\ ppc = "idle" /\ discarded = 0 /\ dropped > 0
    /\ Visible = Range(1, RING_BUF_SIZE + 1)

\* C4: a step that does not move the read cursor (any step of a write,
\* also of one larger than the free space) leaves every sample a
\* read_access can see at its position in the unread sequence.
C4_UnreadNeverOverwritten ==
    [][head' = head => IsPrefix(Visible, Visible')]_vars

\* C4 witness: a write larger than the free space has returned on a ring
\* that holds unread samples across the wrap.
C4_Witness ==
    /\ ppc = "idle" /\ dropped > 0 /\ discarded > 0
    /\ head > tail /\ tail > 0
    /\ Len(Visible) = RING_BUF_SIZE
    /\ Visible = Unread

\* C5: Consumer::len is the number of unread samples and never exceeds
\* the capacity.
C5_LenWithinCapacity ==
    /\ len(head, tail) <= RING_BUF_SIZE
    /\ len(head, tail) = Len(Unread)

\* C5 witness: the ring is full right after a write larger than the free
\* space.
C5_Witness ==
    /\ ppc = "idle" /\ pN < Len(pData)
    /\ len(head, tail) = RING_BUF_SIZE

\* A step of a read_access: entry, one sample read by the closure, return.
AccessStep == <<cpc, cS1, cS2>> # <<cpc', cS1', cS2'>>

\* C6: read_access peeks.  None of its steps changes the read cursor, the
\* write cursor, the stored samples or len(), and an undisturbed access
\* that follows an undisturbed access, with no write or clear since that
\* one began, returns the same two slices again.
C6_ReadAccessPeeks ==
    [][/\ AccessStep => /\ UNCHANGED <<head, tail, data>>
                         /\ len(head', tail') = len(head, tail)
       /\ (AccessReturns /\ ~cDirty /\ quietRun >= 1)
              => (s1' = s1 /\ s2' = s2)]_vars

\* C6 witness: two undisturbed accesses in a row have returned the same
\* non-empty wrapped slices, which are still in the ring.
C6_Witness ==
    /\ cpc = "idle" /\ quietRun = 2
    /\ s1 # <<>> /\ s2 # <<>>
    /\ s1 \o s2 = Visible
    /\ len(head, tail) = Len(s1) + Len(s2)

\* The samples stored since the last clear.
AfterClearMark(x) == x > clearMark

\* C7: once clear has returned with no write in flight, len() is 0 until
\* the next write returns; every sample a later read_access yields was
\* written after the clear, and an undisturbed read_access yields exactly
\* the samples stored since the clear.
C7_ClearEmptiesRing ==
    [][/\ (~uncleared' /\ ppc' = "idle") => len(head', tail') = 0
       /\ AccessReturns =>
              /\ \A x \in SeqSet(s1' \o s2') : AfterClearMark(x)
              /\ ~cDirty => s1' \o s2' = SelectSeq(accepted, AfterClearMark)]_vars

\* C7 witness: clear ran on a ring whose read position was not at slot 0,
\* and an undisturbed access has since returned the samples written after
\* it, across the wrap.
C7_Witness ==
    /\ cpc = "idle" /\ quietRun >= 1
    /\ clearMark > 0 /\ discarded > 0 /\ discarded < RING_BUF_SIZE
    /\ s1 # <<>> /\ s2 # <<>>
    /\ s1 \o s2 = SelectSeq(accepted, AfterClearMark)

\* C8: a write in flight can always take its next step, whatever the
\* consumer is doing and however full the ring is, and it takes at most
\* one copy step per sample of its input before it returns.
C8_WriteNeverBlocks ==
    ppc = "copy" => /\ ENABLED (write_copy \/ write_end)
                    /\ pN <= Len(pData)
                    /\ pN <= RING_BUF_SIZE

\* C8 witness: a write is in flight on a full ring while the consumer is
\* in the middle of a read_access.
C8_Witness ==
    /\ ppc = "copy" /\ pData # <<>> /\ pFree = <<>>
    /\ cpc = "read" /\ cS1 # <<>> /\ Len(cS1) < Len(cIdx1)

\* C9 as claimed: a process call is handed no sample that an earlier
\* process call since the last clear was handed.
C9_OnlyNewSamples ==
    [][AccessReturns => SeqSet(s1' \o s2') \cap handedSinceClear = {}]_vars

\* C9 amended: a process call is handed every unread sample, so it is
\* handed again every sample that the process calls since the last clear
\* were handed; it is never handed a sample that was handed to a process
\* call before the last clear.
C9_HandedAgainUntilClear ==
    [][AccessReturns => /\ handedSinceClear \subseteq SeqSet(s1' \o s2')
                        /\ SeqSet(s1' \o s2') \cap handedBeforeClear = {}]_vars

\* C9 witness: samples were handed before a clear, and since the clear two
\* process calls in a row were handed the same new samples.
C9_Witness ==
    /\ cpc = "idle" /\ quietRun = 2
    /\ handedBeforeClear # {}
    /\ handedSinceClear # {}
    /\ handedSinceClear = SeqSet(s1 \o s2)

\* C10 as claimed: if a process call has run after every write, no sample
\* of a write of at most RING_BUF_SIZE samples was dropped.
C10_ProcessedNeverDrops ==
    (ppc = "idle" /\ allProcessed /\ ~unprocessed) => droppedFit = 0

\* C10 amended: if Consumer.clear has run after every write, before the
\* next write began, no sample of a write of at most RING_BUF_SIZE samples
\* was dropped.
C10_ClearedNeverDrops ==
    allCleared => droppedFit = 0

\* C10 witness: the whole input went through the ring in several writes,
\* a clear after each, and nothing was dropped.
C10_Witness ==
    /\ ppc = "idle" /\ allCleared /\ ~uncleared
    /\ offered = MaxSamples /\ dropped = 0
    /\ discarded = MaxSamples

----------------------------------------------------------------------------
(***************************************************************************)
(* db_meter PeakDetector (src/native/db_meter/peak.rs).                    *)
(*                                                                         *)
(* process hands the closure of read_access a batch (s1, s2): two slices   *)
(* of samples, the second non-empty only if the first is.  calc_peak_db is *)
(* public and takes any two slices.  Samples are small signed integers;    *)
(* decibel values are integers in hundredths of a dB.                      *)
(***************************************************************************)

\* Longest batch (both slices together) handed to the PeakDetector.
MaxPeakBatch == 2

\* Sample values fed to the PeakDetector.
PeakSamples == {-2, -1, 0, 1}

SeqsUpTo(S, n) == UNION {[1..k -> S] : k \in 0..n}

\* Any two slices with at most n samples together.
SlicePairs(S, n) ==
    {<<a, b>> \in SeqsUpTo(S, n) \X SeqsUpTo(S, n) : Len(a) + Len(b) <= n}

\* The batches read_access can hand out: s2 holds samples only past the
\* wrap, that is only when s1 holds some.
Batches(S, n) == {b \in SlicePairs(S, n) : b[2] # <<>> => b[1] # <<>>}

BatchLen(b) == Len(b[1]) + Len(b[2])

\* f32::abs
Abs(x) == IF x < 0 THEN -x ELSE x

\* core::math::amplitude_to_db_f32: 20 * log10(amp), in hundredths of a dB;
\* log10(0) is minus infinity.
amplitude_to_db_f32(amp) ==
    CASE amp = 0 -> -1000000
      [] amp = 1 -> 0
      [] amp = 2 -> 602
      [] amp = 3 -> 954
      [] amp = 4 -> 1204

\* One loop of calc_peak_db: raise max_peak to the largest |smp| of s.
RECURSIVE PeakFold(_, _)
PeakFold(s, max_peak) ==
    IF s = <<>> THEN max_peak
    ELSE PeakFold(Tail(s), IF Abs(Head(s)) > max_peak THEN Abs(Head(s)) ELSE max_peak)

\* Fault: only the first slice is scanned.
calc_peak_db_first_slice(sl1, sl2) == amplitude_to_db_f32(PeakFold(sl1, 0))

\* calc_peak_db: max_peak starts at 0.0, runs over s1, then over s2.
calc_peak_db(sl1, sl2) == amplitude_to_db_f32(PeakFold(sl2, PeakFold(sl1, 0)))

\* A direct call calc_peak_db(s1, s2) on the slices in_left.
calc_peak_db_call ==
    /\ call = "none"
    /\ in_right = None
    /\ call' = "calc_peak_db"
    /\ peak_db' = Some(calc_peak_db(in_left[1], in_left[2]))
    /\ UNCHANGED <<in_left, in_right, output>>
    /\ UNCHANGED <<ringVars, prodVars, consVars, histVars, rmsVars, scopeVars, waveVars>>

\* Fault: a batch of a single sample is taken for empty.
HasSamplesOffByOne(b) == Len(b[1]) + Len(b[2]) > 1

\* total_len > 0
HasSamples(b) == Len(b[1]) + Len(b[2]) > 0

\* The peak process stores for one stream's batch.
PeakOf(b) == IF HasSamples(b) THEN Some(calc_peak_db(b[1], b[2])) ELSE None

\* PeakDetector::process(left_stream, right_stream): in_left is the left
\* stream's batch, in_right is None or Some(the right stream's batch).
peak_process ==
    /\ call = "none"
    /\ in_left \in Batches(PeakSamples, MaxPeakBatch)
    /\ call' = "process"
    /\ output' =
          LET left_peak == PeakOf(in_left)
              right_peak == IF in_right # None THEN PeakOf(in_right[1]) ELSE None
          IN  [left_peak_db |-> left_peak, left_bar_db |-> left_peak,
               right_peak_db |-> right_peak, right_bar_db |-> right_peak]
    /\ UNCHANGED <<in_left, in_right, peak_db>>
    /\ UNCHANGED <<ringVars, prodVars, consVars, histVars, rmsVars, scopeVars, waveVars>>

\* The PeakDetector keeps no state, so every call is a first call: the
\* arguments are drawn at the start and one call is made on them.
InitPeakCall ==
    /\ InitStream
    /\ InitRms
    /\ InitScope
    /\ InitWave
    /\ call = "none"
    /\ in_left \in SlicePairs(PeakSamples, MaxPeakBatch)
    /\ in_right \in {None} \cup {Some(b) : b \in Batches(PeakSamples, MaxPeakBatch)}
    /\ output = DetectorOutputEmpty
    /\ peak_db = None

NextPeak ==
    \/ calc_peak_db_call
    \/ peak_process

SpecPeak == InitPeakCall /\ [][NextPeak]_vars

\* The largest absolute value of a set of samples, 0 for the empty set.
MaxAbs(S) == CHOOSE m \in {Abs(x) : x \in S} \cup {0} : \A x \in S : Abs(x) <= m

\* C17: PeakDetector.process gives None for a channel's peak and bar
\* exactly when that channel's batch is empty or, for the right channel,
\* when there is no right stream; it gives Some for both otherwise, and
\* the bar always equals the peak.
C17_NoneIffEmpty ==
    call = "process" =>
      /\ (output.left_peak_db = None) <=> (BatchLen(in_left) = 0)
      /\ (output.right_peak_db = None)
            <=> (in_right = None \/ BatchLen(in_right[1]) = 0)
      /\ output.left_bar_db = output.left_peak_db
      /\ output.right_bar_db = output.right_peak_db

\* C17 witness: process returned with an empty left batch (None) and a
\* right batch of a single sample (Some).
C17_Witness ==
    /\ call = "process"
    /\ BatchLen(in_left) = 0 /\ output.left_bar_db = None
    /\ in_right # None /\ BatchLen(in_right[1]) = 1
    /\ output.right_bar_db # None

\* C18: calc_peak_db(s1, s2) is the dB conversion of the largest absolute
\* sample value of both slices together (of 0 when there is none), so it
\* depends on the samples only through that maximum; the peaks process
\* returns are that value for each stream's batch.
C18_PeakIsMaxAbs ==
    /\ call = "calc_peak_db" =>
          peak_db = Some(amplitude_to_db_f32(MaxAbs(SeqSet(in_left[1] \o in_left[2]))))
    /\ (call = "process" /\ BatchLen(in_left) > 0) =>
          output.left_peak_db
             = Some(amplitude_to_db_f32(MaxAbs(SeqSet(in_left[1] \o in_left[2]))))
    /\ (call = "process" /\ in_right # None /\ BatchLen(in_right[1]) > 0) =>
          output.right_peak_db
             = Some(amplitude_to_db_f32(MaxAbs(SeqSet(in_right[1][1] \o in_right[1][2]))))

\* C18 witness: calc_peak_db was called with the largest magnitude in the
\* second slice, as a negative sample.
C18_Witness ==
    /\ call = "calc_peak_db"
    /\ in_left[1] # <<>> /\ in_left[2] # <<>>
    /\ -2 \in SeqSet(in_left[2]) /\ -2 \notin SeqSet(in_left[1])
    /\ peak_db = Some(amplitude_to_db_f32(2))

----------------------------------------------------------------------------
(***************************************************************************)
(* db_meter PeakRmsDetector (src/native/db_meter/peak_rms.rs).             *)
(*                                                                         *)
(* Samples are small integers, so sums of squares are exact.  Sample       *)
(* rates are integers and the 0.3 s window is the fraction 3/10.  An       *)
(* RmsCache is a record; block_cache lists the cached block sums, oldest   *)
(* first, and capacity is the capacity of the CircularQueue.               *)
(***************************************************************************)

\* RMS_BLOCK_SIZE.  256 in the source; scaled down for model checking.
RMS_BLOCK_SIZE == 3

\* RMS_WINDOW_SIZE_SEC = 0.3, in tenths of a second.
RMS_WINDOW_SIZE_TENTHS == 3

\* Longest batch (both slices together) handed to one process call.
MaxRmsBatch == 4

\* Number of process calls in one behaviour.
MaxRmsCalls == 2

\* Sample rates given to update_sample_rate (scaled with RMS_BLOCK_SIZE).
RmsSampleRates == {10, 15}

\* Sample values fed to the PeakRmsDetector.
RmsSamples == {1, -2}

\* f32::round of p / q for p >= 0, q > 0: to the nearest integer, halves up.
RoundDiv(p, q) == (2 * p + q) \div (2 * q)

\* (RMS_WINDOW_SIZE_SEC * sample_rate).round()
WindowTarget(sr) == RoundDiv(RMS_WINDOW_SIZE_TENTHS * sr, 10)

\* Fault: the number of blocks is rounded down.
BlocksPerWindowFloor(sr) == WindowTarget(sr) \div RMS_BLOCK_SIZE

\* (rms_window_size / RMS_BLOCK_SIZE as f32).round() as usize
BlocksPerWindow(sr) == RoundDiv(WindowTarget(sr), RMS_BLOCK_SIZE)

\* The RmsCache update_sample_rate builds: an empty queue of the given
\* capacity, a zeroed staging buffer of RMS_BLOCK_SIZE samples.
NewRmsCache(cap) ==
    [block_cache |-> <<>>, capacity |-> cap, block_sum |-> 0,
     smps_to_cache |-> [i \in 1..RMS_BLOCK_SIZE |-> 0], smps_not_cached |-> 0]

\* Fault: a channel that already has a cache keeps it across a rate change.
RmsCacheForRateKeepOld(old, cap) == IF old = None THEN Some(NewRmsCache(cap)) ELSE old

\* The cache a channel gets on a rate change: always a new one.
RmsCacheForRate(old, cap) == Some(NewRmsCache(cap))

RECURSIVE SumSq(_)
SumSq(s) == IF s = <<>> THEN 0 ELSE Head(s) * Head(s) + SumSq(Tail(s))

\* Fault: the evicted entry is not subtracted from block_sum.
PushBlockNoSubtract(c, sum) ==
    IF Len(c.block_cache) = c.capacity
    THEN [c EXCEPT !.block_cache = Append(Tail(c.block_cache), sum),
                   !.block_sum = c.block_sum + sum]
    ELSE [c EXCEPT !.block_cache = Append(c.block_cache, sum),
                   !.block_sum = c.block_sum + sum]

\* block_cache.push(sum) with the bookkeeping of block_sum: a full queue
\* gives back its oldest entry, which is subtracted.
PushBlock(c, sum) ==
    IF Len(c.block_cache) = c.capacity
    THEN [c EXCEPT !.block_cache = Append(Tail(c.block_cache), sum),
                   !.block_sum = c.block_sum - Head(c.block_cache) + sum]
    ELSE [c EXCEPT !.block_cache = Append(c.block_cache, sum),
                   !.block_sum = c.block_sum + sum]

\* The while loop of rms_db.  st holds the loop's locals (uncached_smps,
\* s1, s2, total_smps_not_cached), the cache and whether a slice index
\* was out of range.
RECURSIVE RmsBlocks(_)
RmsBlocks(st) ==
    IF st.panic \/ st.total < RMS_BLOCK_SIZE THEN st
    ELSE IF Len(st.unc) + Len(st.s1) >= RMS_BLOCK_SIZE
    THEN \* the block is uncached_smps and the head of s1
         LET k == RMS_BLOCK_SIZE - Len(st.unc)
             sum == SumSq(st.unc) + SumSq(SubSeq(st.s1, 1, k))
         IN  RmsBlocks([st EXCEPT
                 !.unc = <<>>,
                 !.s1 = SubSeq(st.s1, k + 1, Len(st.s1)),
                 !.total = st.total - RMS_BLOCK_SIZE,
                 !.cache = PushBlock([st.cache EXCEPT !.smps_not_cached = 0], sum)])
    ELSE \* the block is taken to be s1 and the head of s2: &s2[..k]
         LET k == RMS_BLOCK_SIZE - Len(st.s1)
             sum == SumSq(st.s1) + SumSq(SubSeq(st.s2, 1, k))
         IN  IF k > Len(st.s2)
             THEN [st EXCEPT !.panic = TRUE]
             ELSE RmsBlocks([st EXCEPT
                     !.s1 = <<>>,
                     !.s2 = SubSeq(st.s2, k + 1, Len(st.s2)),
                     !.total = st.total - RMS_BLOCK_SIZE,
                     !.cache = PushBlock(st.cache, sum)])

\* The value amplitude_to_db_f32((block_sum * one_over_rms_window_size).sqrt()):
\* <<dB>> when block_sum / window is the square of an integer, and the
\* pair <<block_sum, window>> standing for it otherwise.
RmsDbValue(block_sum, window) ==
    IF \E r \in 0..4 : r * r * window = block_sum
    THEN <<amplitude_to_db_f32(CHOOSE r \in 0..4 : r * r * window = block_sum)>>
    ELSE <<block_sum, window>>

\* Fault: the RMS is computed as soon as one block is cached.
BlockCacheIsFullAnyBlock(c) == Len(c.block_cache) >= 1

\* block_cache.is_full()
BlockCacheIsFull(c) == Len(c.block_cache) = c.capacity

\* copy_from_slice of src into smps_to_cache[from .. from + len(src)]
StoreSamples(buf, from, src) ==
    [i \in 1..Len(buf) |->
        IF i > from /\ i <= from + Len(src) THEN src[i - from] ELSE buf[i]]

\* PeakRmsDetector::rms_db(s1, s2, rms_cache, one_over_rms_window_size):
\* the cache afterwards, the returned Option and whether the call panicked.
rms_db(sl1, sl2, rms_cache, window) ==
    LET unc == SubSeq(rms_cache.smps_to_cache, 1, rms_cache.smps_not_cached)
        total == Len(unc) + Len(sl1) + Len(sl2)
        st == RmsBlocks([unc |-> unc, s1 |-> sl1, s2 |-> sl2, total |-> total,
                         cache |-> rms_cache, panic |-> FALSE])
        res == IF total >= RMS_BLOCK_SIZE /\ ~st.panic /\ BlockCacheIsFull(st.cache)
               THEN Some(RmsDbValue(st.cache.block_sum, window))
               ELSE None
        n1 == st.cache.smps_not_cached + Len(st.s1)
        n2 == n1 + Len(st.s2)
    IN  IF st.panic THEN [cache |-> st.cache, rms_db |-> None, panic |-> TRUE]
        ELSE IF Len(st.s1) + Len(st.s2) = 0
        THEN [cache |-> st.cache, rms_db |-> res, panic |-> FALSE]
        ELSE IF n2 > RMS_BLOCK_SIZE
        THEN [cache |-> st.cache, rms_db |-> None, panic |-> TRUE]
        ELSE [cache |-> [st.cache EXCEPT
                            !.smps_to_cache =
                                StoreSamples(StoreSamples(st.cache.smps_to_cache,
                                                          st.cache.smps_not_cached, st.s1),
                                             n1, st.s2),
                            !.smps_not_cached = n2],
              rms_db |-> res, panic |-> FALSE]

\* PeakRmsDetector::update_sample_rate(sr)
rms_update_sample_rate(sr) ==
    /\ ~rms_panicked
    /\ call' = "update_sample_rate"
    /\ IF sample_rate # sr
       THEN /\ sample_rate' = sr
            /\ rms_block_size' = BlocksPerWindow(sr)
            /\ rms_window_size' = BlocksPerWindow(sr) * RMS_BLOCK_SIZE
            /\ left_rms_cache' = RmsCacheForRate(left_rms_cache, BlocksPerWindow(sr))
            /\ right_rms_cache' = RmsCacheForRate(right_rms_cache, BlocksPerWindow(sr))
            /\ fed_left' = 0 /\ fed_right' = 0
            /\ amp_left' = 0 /\ amp_right' = 0
            /\ stream_left' = <<>>
       ELSE UNCHANGED <<sample_rate, rms_block_size, rms_window_size,
                        left_rms_cache, right_rms_cache,
                        fed_left, fed_right, amp_left, amp_right, stream_left>>
    /\ UNCHANGED <<in_left, in_right, output, peak_db, rms_panicked, rms_calls>>
    /\ UNCHANGED <<ringVars, prodVars, consVars, histVars, scopeVars, waveVars>>

\* What the closure of process does with one stream's batch b and that
\* channel's cache.
RmsChannel(b, cache) ==
    IF ~HasSamples(b)
    THEN [peak |-> None, bar |-> None, cache |-> cache, panic |-> FALSE, fed |-> 0]
    ELSE IF cache = None
    THEN [peak |-> Some(calc_peak_db(b[1], b[2])), bar |-> None,
          cache |-> cache, panic |-> FALSE, fed |-> 0]
    ELSE LET r == rms_db(b[1], b[2], cache[1], rms_window_size)
         IN  [peak |-> Some(calc_peak_db(b[1], b[2])), bar |-> r.rms_db,
              cache |-> Some(r.cache), panic |-> r.panic, fed |-> BatchLen(b)]

\* The common value of the samples fed so far, given that of the earlier
\* ones (0: none) and a further batch.
AmpAfter(amp, b) ==
    LET S == SeqSet(b[1] \o b[2])
    IN  IF S = {} THEN amp
        ELSE IF Cardinality(S) = 1 /\ (amp = 0 \/ S = {amp})
        THEN CHOOSE x \in S : TRUE
        ELSE -1

\* PeakRmsDetector::process(left_stream, right_stream): l is the left
\* stream's batch, r is None or Some(the right stream's batch).
rms_process(l, r) ==
    /\ ~rms_panicked
    /\ rms_calls < MaxRmsCalls
    /\ LET L == RmsChannel(l, left_rms_cache)
           R == IF r = None \/ L.panic
                THEN [peak |-> None, bar |-> None, cache |-> right_rms_cache,
                      panic |-> FALSE, fed |-> 0]
                ELSE RmsChannel(r[1], right_rms_cache)
       IN  /\ left_rms_cache' = L.cache
           /\ right_rms_cache' = R.cache
           /\ rms_panicked' = (L.panic \/ R.panic)
           /\ output' = IF L.panic \/ R.panic THEN output
                        ELSE [left_peak_db |-> L.peak, left_bar_db |-> L.bar,
                              right_peak_db |-> R.peak, right_bar_db |-> R.bar]
           /\ fed_left' = fed_left + L.fed
           /\ fed_right' = fed_right + R.fed
           /\ amp_left' = IF L.fed > 0 THEN AmpAfter(amp_left, l) ELSE amp_left
           /\ amp_right' = IF R.fed > 0 THEN AmpAfter(amp_right, r[1]) ELSE amp_right
           /\ stream_left' = IF L.fed > 0 THEN stream_left \o l[1] \o l[2] ELSE stream_left
    /\ call' = "process"
    /\ rms_calls' = rms_calls + 1
    /\ UNCHANGED <<in_left, in_right, peak_db, sample_rate, rms_block_size, rms_window_size>>
    /\ UNCHANGED <<ringVars, prodVars, consVars, histVars, scopeVars, waveVars>>

\* Fault: clear forgets the running sum.
ClearedRmsCacheKeepSum(cache) ==
    IF cache = None THEN None
    ELSE Some([cache[1] EXCEPT !.smps_not_cached = 0, !.block_cache = <<>>])

\* What clear does to one channel's cache.
ClearedRmsCache(cache) ==
    IF cache = None THEN None
    ELSE Some([cache[1] EXCEPT !.smps_not_cached = 0, !.block_cache = <<>>,
                               !.block_sum = 0])

\* PeakRmsDetector::clear()
rms_clear ==
    /\ ~rms_panicked
    /\ call' = "clear"
    /\ left_rms_cache' = ClearedRmsCache(left_rms_cache)
    /\ right_rms_cache' = ClearedRmsCache(right_rms_cache)
    /\ fed_left' = 0 /\ fed_right' = 0
    /\ amp_left' = 0 /\ amp_right' = 0
    /\ stream_left' = <<>>
    /\ UNCHANGED <<in_left, in_right, output, peak_db, sample_rate, rms_block_size,
                   rms_window_size, rms_panicked, rms_calls>>
    /\ UNCHANGED <<ringVars, prodVars, consVars, histVars, scopeVars, waveVars>>

\* The batches of samples of one value.
ConstBatches == {b \in Batches(RmsSamples, MaxRmsBatch) :
                    Cardinality(SeqSet(b[1] \o b[2])) <= 1}

NextRms ==
    \/ \E sr \in RmsSampleRates : rms_update_sample_rate(sr)
    \/ \E l \in ConstBatches :
          \E r \in {None, Some(l)} :
             rms_process(l, r)
    \/ rms_clear

SpecRms == Init /\ [][NextRms]_vars

\* C11 as claimed: no call of PeakRmsDetector.process panics.
C11_RmsDbNeverPanics == ~rms_panicked

\* The RMS output of the latest process call is None for a channel that
\* has been fed fewer than rms_window_size samples since the last reset.
RmsNoneBeforeWindow ==
    (call = "process" /\ ~rms_panicked) =>
        /\ fed_left < rms_window_size => output.left_bar_db = None
        /\ fed_right < rms_window_size => output.right_bar_db = None

\* A channel's block cache holds rms_window_size / RMS_BLOCK_SIZE sums.
HoldsFullWindow(cache) ==
    /\ cache # None
    /\ Len(cache[1].block_cache) = rms_window_size \div RMS_BLOCK_SIZE

\* C12: a process call returns an RMS value for a channel only when that
\* channel's block cache holds rms_window_size / RMS_BLOCK_SIZE block sums,
\* and returns None for a channel fed fewer than rms_window_size samples
\* since the last reset.
C12_RmsOnlyWhenCacheFull ==
    /\ RmsNoneBeforeWindow
    /\ (call = "process" /\ ~rms_panicked) =>
          /\ output.left_bar_db # None => HoldsFullWindow(left_rms_cache)
          /\ output.right_bar_db # None => HoldsFullWindow(right_rms_cache)

\* A process call returned an RMS for both channels over a window of two
\* blocks.
C12_Witness ==
    /\ call = "process" /\ ~rms_panicked
    /\ rms_window_size = 2 * RMS_BLOCK_SIZE
    /\ output.left_bar_db # None /\ output.right_bar_db # None
    /\ fed_left >= rms_window_size /\ fed_right >= rms_window_size

\* C13 as claimed: the process call that brings the samples fed since the
\* last reset to exactly rms_window_size, all of one value a, returns the
\* RMS 20*log10(|a|).
C13_FullWindowGivesAmplitude ==
    [][(/\ fed_left < rms_window_size
        /\ fed_left' = rms_window_size
        /\ amp_left' \in RmsSamples)
       => /\ ~rms_panicked'
          /\ output'.left_bar_db = Some(<<amplitude_to_db_f32(Abs(amp_left'))>>)]_vars

\* The accumulators of a cache are empty.
NoRmsHistory(cache) ==
    /\ cache # None
    /\ cache[1].block_cache = <<>>
    /\ cache[1].block_sum = 0
    /\ cache[1].smps_not_cached = 0

\* C14: update_sample_rate with a rate other than the current one leaves
\* both channels without RMS history (block cache empty, block_sum 0, no
\* staged samples), and the process calls after it return None until a
\* full window at the new rate has been fed.
C14_RateChangeDiscardsHistory ==
    [][/\ sample_rate' # sample_rate =>
            /\ NoRmsHistory(left_rms_cache') /\ NoRmsHistory(right_rms_cache')
            /\ left_rms_cache'[1].capacity * RMS_BLOCK_SIZE = rms_window_size'
            /\ right_rms_cache'[1].capacity * RMS_BLOCK_SIZE = rms_window_size'
       /\ RmsNoneBeforeWindow']_vars

\* The rate was changed after an RMS over a window of one block had been
\* returned: both caches are new ones for a window of two blocks.
C14_Witness ==
    /\ call = "update_sample_rate"
    /\ \E x \in 1..100 : output.left_bar_db = Some(<<x, RMS_BLOCK_SIZE>>)
    /\ output.right_bar_db # None
    /\ left_rms_cache = Some(NewRmsCache(2)) /\ right_rms_cache = Some(NewRmsCache(2))

\* C15 as claimed: rms_window_size is round(0.3 * sr) rounded down to a
\* multiple of the block size, and the capacity is rms_window_size / block.
C15_WindowRoundedDown ==
    sample_rate # 0 =>
        /\ rms_window_size = (WindowTarget(sample_rate) \div RMS_BLOCK_SIZE) * RMS_BLOCK_SIZE
        /\ rms_window_size <= WindowTarget(sample_rate)
        /\ left_rms_cache[1].capacity = rms_window_size \div RMS_BLOCK_SIZE
        /\ right_rms_cache[1].capacity = rms_window_size \div RMS_BLOCK_SIZE

\* C15 amended: rms_window_size is the multiple of the block size nearest
\* to round(0.3 * sr) (a tie goes up), so it may exceed the target by up
\* to half a block; the capacity is rms_window_size / block.
C15_WindowRoundedToNearest ==
    sample_rate # 0 =>
        /\ rms_window_size % RMS_BLOCK_SIZE = 0
        /\ 2 * (rms_window_size - WindowTarget(sample_rate)) <= RMS_BLOCK_SIZE
        /\ 2 * (WindowTarget(sample_rate) - rms_window_size) < RMS_BLOCK_SIZE
        /\ rms_block_size = rms_window_size \div RMS_BLOCK_SIZE
        /\ left_rms_cache[1].capacity = rms_window_size \div RMS_BLOCK_SIZE
        /\ right_rms_cache[1].capacity = rms_window_size \div RMS_BLOCK_SIZE

\* A rate whose window is longer than the 0.3 s target.
C15_Witness ==
    /\ call = "update_sample_rate"
    /\ sample_rate # 0
    /\ rms_window_size > WindowTarget(sample_rate)

\* clear's effect on one channel: accumulators emptied, allocation kept.
Cleared(before, after) ==
    IF before = None THEN after = None
    ELSE /\ NoRmsHistory(after)
         /\ after[1].capacity = before[1].capacity
         /\ Len(after[1].smps_to_cache) = Len(before[1].smps_to_cache)

\* C16: clear empties each allocated channel's accumulators, leaves
\* sample_rate, rms_window_size, the cache capacity and the staging buffer
\* allocation as they were, and the process calls after it return None
\* until a full window has been fed again.
C16_ClearKeepsAllocation ==
    [][/\ call' = "clear" =>
            /\ Cleared(left_rms_cache, left_rms_cache')
            /\ Cleared(right_rms_cache, right_rms_cache')
            /\ sample_rate' = sample_rate
            /\ rms_window_size' = rms_window_size
            /\ rms_block_size' = rms_block_size
       /\ RmsNoneBeforeWindow']_vars

\* clear was called on a detector that had returned an RMS for both
\* channels and had samples staged.
C16_Witness ==
    /\ call = "clear"
    /\ output.left_bar_db # None /\ output.right_bar_db # None
    /\ NoRmsHistory(left_rms_cache) /\ NoRmsHistory(right_rms_cache)
    /\ \E i \in 1..RMS_BLOCK_SIZE : left_rms_cache[1].smps_to_cache[i] # 0

----------------------------------------------------------------------------
(***************************************************************************)
(* Oscilloscope: Channel and DefaultDetector                               *)
(* (src/native/oscilloscope/default_detector.rs) behind Animator::update   *)
(* (src/native/oscilloscope.rs).                                           *)
(*                                                                         *)
(* The k-th sample read from the left stream is k, the k-th from the right *)
(* stream is -2k.  Plot values are counted in units of 1 / PlotUnit.       *)
(***************************************************************************)

\* Longest batch (both slices together) one read_access hands over.
MaxScopeBatch == 3

\* Samples read from one stream in one behaviour.
MaxScopeSamples == 4

\* Gains and phases (in units of 1 / PhaseDen) given to the detector.
ScopeGains == {1, 2}
ScopePhases == {0, PhaseDen \div 2, PhaseDen}

\* Plot values are multiples of 1 / PlotUnit: half of 1 / PlotDen, for the
\* mean of two plots.
PlotUnit == 2 * PlotDen

\* BMRingBuf::constrain(i): i & mask.
constrain(buffer, i) == i % Len(buffer)

\* BMRingBuf::write_latest_2(s1, s2, start) on the samples s1 \o s2: each
\* sample goes to the constrained index; of samples that meet in a slot
\* the latest stays.
RECURSIVE write_latest(_, _, _)
write_latest(buffer, smps, start) ==
    IF smps = <<>> THEN buffer
    ELSE write_latest([buffer EXCEPT ![constrain(buffer, start) + 1] = Head(smps)],
                      Tail(smps), start + 1)

\* Samples per window: window_size * sample_rate.
WindowLen(p) == p.window_size * p.sample_rate

\* One plot value: the samples at the floor of position fi and next to it,
\* linearly interpolated, times the gain.
\*   (smp1 + ((smp2 - smp1) * inter_smp_frac)) * params.gain
Interpolated(buffer, float_index_floor, inter_smp_frac, gain) ==
    2 * (buffer[constrain(buffer, float_index_floor) + 1] * PlotDen
         + (buffer[constrain(buffer, float_index_floor + 1) + 1]
            - buffer[constrain(buffer, float_index_floor) + 1]) * inter_smp_frac) * gain

\* The plot Channel::process draws: n values from float_index on, plot
\* index delta apart.  Positions are in units of 1 / PlotDen of a sample.
Resampled(buffer, float_index, plot_index_delta, n, gain) ==
    [k \in 1..n |->
        Interpolated(buffer,
                     (float_index + (k - 1) * plot_index_delta) \div PlotDen,
                     (float_index + (k - 1) * plot_index_delta) % PlotDen,
                     gain)]

\* Fault: the phase is not taken back under 1.0.
WindowPhaseNotWrapped(phase) == phase

\* phase = latest_window_phase + params.phase, less 1.0 when that is >= 1.0
WindowPhase(phase) == IF phase >= PhaseDen THEN phase - PhaseDen ELSE phase

\* time_offset * sample_rate, for time_offset = phase * window_size + window_size
TimeOffsetSamples(phase, p) ==
    phase * WindowLen(p) * ScopeResolution + WindowLen(p) * PlotDen

\* The positive floating index: a negative one has its floor constrained.
PositiveIndex(buffer, float_index) ==
    IF float_index < 0
    THEN constrain(buffer, float_index \div PlotDen) * PlotDen + (float_index % PlotDen)
    ELSE float_index

\* The floating index of the sample at the beginning of the latest
\* complete window.
FloatIndex(channel, p) ==
    PositiveIndex(channel.buffer,
                  channel.buffer_i * PlotDen
                  - TimeOffsetSamples(WindowPhase(channel.latest_window_phase + p.phase), p))

\* The n plot values of a channel.
Drawn(channel, n, p) ==
    Resampled(channel.buffer, FloatIndex(channel, p),
              (PlotDen \div n) * WindowLen(p), n, p.gain)

\* The second half of Channel::process: the plots are drawn when a window
\* has elapsed (do_write) and a plot is given.
ChannelPlots(channel, do_write, plot, plot_2, p) ==
    [channel |-> channel,
     plot    |-> IF do_write /\ plot # None
                 THEN Some(Drawn(channel, Len(plot[1]), p)) ELSE plot,
     plot_2  |-> IF do_write /\ plot # None /\ plot_2 # None
                 THEN Some(Drawn(channel, Len(plot[1]), p)) ELSE plot_2]

\* The first half of Channel::process: the samples are written behind
\* buffer_i, buffer_i moves on, and num_windows_elapsed is found.
ChannelWritten(ch, smps, p) ==
    [buffer |-> write_latest(ch.buffer, smps, ch.buffer_i),
     buffer_i |-> constrain(ch.buffer, ch.buffer_i + Len(smps)),
     num_windows_elapsed |->
         ch.latest_window_phase + Len(smps) * (PhaseDen \div WindowLen(p))]

\* do_write = num_windows_elapsed >= 1.0
do_write(w) == w.num_windows_elapsed >= PhaseDen

\* Fault: one window is taken off the count of a due call, whatever is left.
ChannelDueLessOne(w, plot, plot_2, p) ==
    ChannelPlots([buffer |-> w.buffer,
                  latest_window_phase |->
                      IF do_write(w) THEN w.num_windows_elapsed - PhaseDen
                      ELSE w.num_windows_elapsed,
                  buffer_i |-> w.buffer_i],
                 do_write(w), plot, plot_2, p)

\* do_write and latest_window_phase = num_windows_elapsed.fract()
ChannelDue(w, plot, plot_2, p) ==
    ChannelPlots([buffer |-> w.buffer,
                  latest_window_phase |-> w.num_windows_elapsed % PhaseDen,
                  buffer_i |-> w.buffer_i],
                 do_write(w), plot, plot_2, p)

\* Channel::process(s1, s2, plot, plot_2, params): the channel and the two
\* plots (each None or Some) afterwards.
channel_process(ch, sl1, sl2, plot, plot_2, p) ==
    ChannelDue(ChannelWritten(ch, sl1 \o sl2, p), plot, plot_2, p)

\* Vec::resize(n, 0.0)
Resize(v, n) == [i \in 1..n |-> IF i <= Len(v) THEN v[i] ELSE 0]

\* The closure's outcome once Channel::process has returned r.
Processed(r) ==
    [channel |-> Some(r.channel), plot |-> r.plot, plot_2 |-> r.plot_2, processed |-> TRUE]

\* Fault: a stream is left unread when there is no plot to draw into.
StreamIntoChannelPlottedOnly(stream, channel, plot, plot_2, p) ==
    IF stream = None \/ channel = None \/ plot = None
    THEN [channel |-> channel, plot |-> plot, plot_2 |-> plot_2, processed |-> FALSE]
    ELSE Processed(channel_process(channel[1], stream[1][1], stream[1][2], plot, plot_2, p))

\* The closure DefaultDetector::process passes to read_access for one
\* stream: nothing happens without the stream or without the channel.
StreamIntoChannel(stream, channel, plot, plot_2, p) ==
    IF stream = None \/ channel = None
    THEN [channel |-> channel, plot |-> plot, plot_2 |-> plot_2, processed |-> FALSE]
    ELSE Processed(channel_process(channel[1], stream[1][1], stream[1][2], plot, plot_2, p))

\* Fault: the two temporary plots are summed and not halved.
MeanPlotNotHalved(tl, tr) == [i \in 1..Len(tl) |-> tl[i] + tr[i]]

\* The mean of the two temporary plots: (temp_left_plot[i] + temp_right_plot[i]) / 2.0
MeanPlot(tl, tr) == [i \in 1..Len(tl) |-> (tl[i] + tr[i]) \div 2]

\* The temporary plot handed to a channel in mode StereoToMono: the i-th
\* of temp_plots, resized to the length of left_plot.
TempPlot(d, i, lp) ==
    IF lp # None /\ d.temp_plots # None
    THEN Some(Resize(d.temp_plots[1][i], Len(lp[1]))) ELSE None

\* The i-th temporary plot after its channel's closure X has run.
TempAfter(d, i, X) ==
    IF X.processed /\ X.plot # None THEN X.plot[1]
    ELSE IF d.temp_plots # None THEN d.temp_plots[1][i] ELSE <<>>

\* The end of mode StereoToMono: when both channels were processed and a
\* left plot is given, it gets the mean of the temporary plots and the
\* right plot a copy.
StereoSummed(d, L, R, tl, tr, summed, lp, rp) ==
    [left_channel |-> L.channel, right_channel |-> R.channel,
     temp_plots |-> IF d.temp_plots = None THEN None ELSE Some(<<tl, tr>>),
     left_plot |-> IF summed /\ d.temp_plots # None THEN Some(MeanPlot(tl, tr)) ELSE lp,
     right_plot |-> IF summed /\ rp # None
                    THEN (IF d.temp_plots # None THEN Some(MeanPlot(tl, tr)) ELSE lp)
                    ELSE rp]

StereoProcessed(d, L, R, lp, rp) ==
    StereoSummed(d, L, R, TempAfter(d, 1, L), TempAfter(d, 2, R),
                 L.processed /\ R.processed /\ lp # None, lp, rp)

\* DefaultDetector::process in mode StereoToMono.
process_stereo_to_mono(d, l, r, lp, rp) ==
    StereoProcessed(d,
        StreamIntoChannel(l, d.left_channel, TempPlot(d, 1, lp), None, d.params),
        StreamIntoChannel(r, d.right_channel, TempPlot(d, 2, lp), None, d.params),
        lp, rp)

\* The outcome of mode MonoOrLeftOnly: the left closure X with both plots.
OneChannelOutLeft(d, X) ==
    [left_channel |-> X.channel, right_channel |-> d.right_channel,
     temp_plots |-> d.temp_plots, left_plot |-> X.plot, right_plot |-> X.plot_2]

\* The outcome of mode RightOnly: the right closure X with both plots.
OneChannelOutRight(d, X) ==
    [left_channel |-> d.left_channel, right_channel |-> X.channel,
     temp_plots |-> d.temp_plots, left_plot |-> X.plot, right_plot |-> X.plot_2]

\* Fault: the right plot, when given, is the one the left channel drew.
DualOutLeftOverRight(d, L, R) ==
    [left_channel |-> L.channel, right_channel |-> R.channel, temp_plots |-> d.temp_plots,
     left_plot |-> L.plot, right_plot |-> IF R.plot # None THEN L.plot ELSE R.plot]

\* The outcome of mode Dual: each closure with its own plot.
DualOut(d, L, R) ==
    [left_channel |-> L.channel, right_channel |-> R.channel, temp_plots |-> d.temp_plots,
     left_plot |-> L.plot, right_plot |-> R.plot]

\* DefaultDetector::process(left_stream, right_stream, left_plot, right_plot):
\* d is the detector, l the left stream's batch (Some), r the right
\* stream's (None or Some), lp and rp the plots (None or Some).
detector_process(d, l, r, lp, rp) ==
    CASE d.params.mode = "MonoOrLeftOnly" ->
            OneChannelOutLeft(d, StreamIntoChannel(l, d.left_channel, lp, rp, d.params))
      [] d.params.mode = "RightOnly" ->
            OneChannelOutRight(d, StreamIntoChannel(r, d.right_channel, lp, rp, d.params))
      [] d.params.mode = "Dual" ->
            DualOut(d, StreamIntoChannel(l, d.left_channel, lp, None, d.params),
                       StreamIntoChannel(r, d.right_channel, rp, None, d.params))
      [] d.params.mode = "StereoToMono" -> process_stereo_to_mono(d, l, r, lp, rp)

\* The detector held by the Animator.
Detector ==
    [params |-> params, left_channel |-> left_channel, right_channel |-> right_channel,
     temp_plots |-> temp_plots]

\* The plots Animator::update hands to Detector::process.
PlotsGiven(skip_plotting) ==
    IF skip_plotting THEN [left |-> None, right |-> None]
    ELSE [left |-> Some(left_plot), right |-> right_plot]

\* The next samples of a stream that has delivered `from` samples, as the
\* two slices of read_access; scale is 1 for the left stream, -2 for the
\* right.
StreamBatch(from, n1, n2, scale) ==
    <<[j \in 1..n1 |-> scale * (from + j)], [j \in 1..n2 |-> scale * (from + n1 + j)]>>

\* What Animator::update stores once Detector::process, given the plots g,
\* has returned o.
AnimatorProcessed(o, g) ==
    /\ left_channel' = o.left_channel
    /\ right_channel' = o.right_channel
    /\ temp_plots' = o.temp_plots
    /\ left_plot' = IF o.left_plot = None THEN left_plot ELSE o.left_plot[1]
    /\ right_plot' = IF g.right = None THEN right_plot ELSE o.right_plot

\* The channels of the outcome o.
ChannelsOf(o) == <<o.left_channel, o.right_channel>>

\* Whether Channel::process, called with the stream on the channel, finds
\* a window due.
StreamDue(stream, channel, p) ==
    /\ stream # None
    /\ channel # None
    /\ do_write(ChannelWritten(channel[1], stream[1][1] \o stream[1][2], p))

\* Animator::update(delta_gui_time, oscilloscope, left_stream, right_stream,
\* skip_plotting); l and r are None or Some(batch).
animator_update(l, r, skip_plotting) ==
    /\ scope_call' = [op |-> "update", skip_plotting |-> skip_plotting]
    /\ due' = IF l # None
              THEN <<StreamDue(l, left_channel, params), StreamDue(r, right_channel, params)>>
              ELSE <<FALSE, FALSE>>
    /\ scope_due_left' =
          scope_due_left + (IF l # None /\ StreamDue(l, left_channel, params) THEN 1 ELSE 0)
    /\ unskipped' =
          IF l # None
          THEN ChannelsOf(detector_process(Detector, l, r, Some(left_plot), right_plot))
          ELSE <<left_channel, right_channel>>
    /\ IF l # None
       THEN /\ left_active' = TRUE
            /\ AnimatorProcessed(
                  detector_process(Detector, l, r, PlotsGiven(skip_plotting).left,
                                   PlotsGiven(skip_plotting).right),
                  PlotsGiven(skip_plotting))
       ELSE /\ left_active' = FALSE
            /\ UNCHANGED <<left_channel, right_channel, temp_plots, left_plot, right_plot>>
    /\ right_active' = (r # None)
    /\ scope_fed_left' = scope_fed_left + (IF l = None THEN 0 ELSE BatchLen(l[1]))
    /\ scope_fed_right' = scope_fed_right + (IF r = None THEN 0 ELSE BatchLen(r[1]))
    /\ scope_written_left' =
          scope_written_left
          + (IF l # None /\ left_channel # None THEN BatchLen(l[1]) ELSE 0)
    /\ UNCHANGED <<params, scope_changes>>
    /\ UNCHANGED <<ringVars, prodVars, consVars, histVars, peakVars, rmsVars, waveVars>>

\* The detector's fields after allocate_buffers under params p.
Reallocate(p) ==
    LET a == allocate_buffers(p, left_channel, right_channel)
    IN  /\ params' = p
        /\ left_channel' = a.left_channel
        /\ right_channel' = a.right_channel
        /\ temp_plots' = a.temp_plots

\* Setter or clear calls in one behaviour.
MaxScopeChanges == 1

\* What a setter or clear leaves alone.
ScopeSetterFrame(op) ==
    /\ scope_changes < MaxScopeChanges
    /\ scope_changes' = scope_changes + 1
    /\ scope_call' = [op |-> op, skip_plotting |-> FALSE]
    /\ unskipped' = <<left_channel', right_channel'>>
    /\ due' = <<FALSE, FALSE>>
    /\ scope_written_left' =
          IF op = "clear" \/ left_channel = None \/ left_channel' = None
          THEN 0 ELSE scope_written_left
    /\ UNCHANGED <<left_plot, right_plot, left_active, right_active,
                   scope_fed_left, scope_fed_right, scope_due_left>>
    /\ UNCHANGED <<ringVars, prodVars, consVars, histVars, peakVars, rmsVars, waveVars>>

\* Animator::set_window_size -> DefaultDetector::set_window_size(window_size)
set_window_size(window_size) ==
    /\ IF params.window_size # window_size
       THEN Reallocate([params EXCEPT !.window_size = window_size])
       ELSE UNCHANGED <<params, left_channel, right_channel, temp_plots>>
    /\ ScopeSetterFrame("set_window_size")

\* Animator::set_sample_rate -> DefaultDetector::set_sample_rate(sample_rate)
set_sample_rate(rate) ==
    /\ IF params.sample_rate # rate
       THEN Reallocate([params EXCEPT !.sample_rate = rate])
       ELSE UNCHANGED <<params, left_channel, right_channel, temp_plots>>
    /\ ScopeSetterFrame("set_sample_rate")

\* DefaultDetector::set_mode(mode)
set_mode(mode) ==
    /\ IF params.mode # mode
       THEN Reallocate([params EXCEPT !.mode = mode])
       ELSE UNCHANGED <<params, left_channel, right_channel, temp_plots>>
    /\ ScopeSetterFrame("set_mode")

\* Animator::set_gain -> DefaultDetector::set_gain(gain)
set_gain(gain) ==
    /\ params' = [params EXCEPT !.gain = gain]
    /\ UNCHANGED <<left_channel, right_channel, temp_plots>>
    /\ ScopeSetterFrame("set_gain")

\* Animator::set_phase -> DefaultDetector::set_phase(phase)
set_phase(phase) ==
    /\ params' = [params EXCEPT !.phase = phase]
    /\ UNCHANGED <<left_channel, right_channel, temp_plots>>
    /\ ScopeSetterFrame("set_phase")

\* Channel::clear: buffer.clear(), phase and index to zero.
channel_clear(channel) ==
    IF channel = None THEN None
    ELSE Some([buffer |-> [i \in 1..Len(channel[1].buffer) |-> 0],
               latest_window_phase |-> 0, buffer_i |-> 0])

\* Animator::clear -> DefaultDetector::clear
scope_clear ==
    /\ left_channel' = channel_clear(left_channel)
    /\ right_channel' = channel_clear(right_channel)
    /\ UNCHANGED <<params, temp_plots>>
    /\ ScopeSetterFrame("clear")

\* The lengths (of s1, of s2) of the batch the streams hand over, the
\* left stream having delivered `from` samples: a second slice only after
\* a first one (the view wraps).  Both streams are fed by one callback.
BatchShapes(from) ==
    {m \in (0..MaxScopeBatch) \X (0..MaxScopeBatch) :
        /\ m[1] + m[2] <= MaxScopeBatch
        /\ m[2] > 0 => m[1] > 0
        /\ from + m[1] + m[2] <= MaxScopeSamples}

\* DefaultDetector::new in some mode, and State::new with or without a
\* second plot.
InitScopeAny ==
    \E mode \in Modes, dual_plots \in BOOLEAN :
        ScopeConstructed([window_size |-> 1, sample_rate |-> 2, gain |-> 1,
                          phase |-> 0, mode |-> mode], dual_plots)

NextScope ==
    \/ \E n \in BatchShapes(scope_fed_left), with_right \in BOOLEAN, skip_plotting \in BOOLEAN :
            animator_update(
                Some(StreamBatch(scope_fed_left, n[1], n[2], 1)),
                IF with_right THEN Some(StreamBatch(scope_fed_right, n[1], n[2], -2)) ELSE None,
                skip_plotting)
    \/ \E with_right \in BOOLEAN, skip_plotting \in BOOLEAN :
            animator_update(None, IF with_right THEN Some(<<<<>>, <<>>>>) ELSE None,
                            skip_plotting)
    \/ \E window_size \in ScopeWindowSizes : set_window_size(window_size)
    \/ \E rate \in ScopeSampleRates : set_sample_rate(rate)
    \/ \E mode \in Modes : set_mode(mode)
    \/ \E gain \in ScopeGains : set_gain(gain)
    \/ \E phase \in ScopePhases : set_phase(phase)
    \/ scope_clear

InitScopeCall ==
    /\ InitStream
    /\ InitPeak
    /\ InitRms
    /\ InitScopeAny
    /\ InitWave

SpecScope == InitScopeCall /\ [][NextScope]_vars

\* A channel as a full reset leaves it under the present params.
FullyReset(channel) ==
    channel # None =>
        /\ channel[1].buffer = FromLen(BufferSize(params))
        /\ channel[1].buffer_i = 0
        /\ channel[1].latest_window_phase = 0

\* C19 as claimed: set_window_size or set_sample_rate with a value other
\* than the present one leaves every allocated channel fully reset: its
\* history re-sized and cleared, buffer_i = 0, latest_window_phase = 0.
C19_ResizeResetsChannels ==
    [][(/\ scope_call'.op \in {"set_window_size", "set_sample_rate"}
        /\ \/ params'.window_size # params.window_size
           \/ params'.sample_rate # params.sample_rate)
       => (FullyReset(left_channel) /\ FullyReset(right_channel))']_vars

\* C20: an update with skip_plotting = true leaves the channels (history,
\* buffer_i, latest_window_phase) as the same update without skipping
\* would, and leaves State's left_plot and right_plot as they were.
C20_SkipPlottingStillProcesses ==
    [][(scope_call'.op = "update" /\ scope_call'.skip_plotting)
       => /\ <<left_channel', right_channel'>> = unskipped'
          /\ left_plot' = left_plot
          /\ right_plot' = right_plot]_vars

\* A skipped update in mode StereoToMono read a full window from both
\* streams into the channels, and nothing has been plotted.
C20_Witness ==
    /\ scope_call = [op |-> "update", skip_plotting |-> TRUE]
    /\ params.mode = "StereoToMono"
    /\ left_channel[1].buffer_i >= WindowLen(params)
    /\ right_channel[1].buffer_i >= WindowLen(params)
    /\ left_channel[1].buffer[1] = 1 /\ right_channel[1].buffer[1] = -2
    /\ right_plot # None
    /\ \A i \in 1..ScopeResolution : left_plot[i] = 0 /\ right_plot[1][i] = 0

----------------------------------------------------------------------------
(* Further properties of the PeakRmsDetector. *)

RECURSIVE SeqSum(_)
SeqSum(s) == IF s = <<>> THEN 0 ELSE Head(s) + SeqSum(Tail(s))

\* block_sum is the sum of the cached block sums, and the cache holds at
\* most rms_window_size / RMS_BLOCK_SIZE of them.
BlockSumConsistent(cache) ==
    cache # None =>
        /\ cache[1].block_sum = SeqSum(cache[1].block_cache)
        /\ Len(cache[1].block_cache) <= rms_window_size \div RMS_BLOCK_SIZE

\* C25: in every reachable state each channel's block_sum equals the sum of
\* the block sums held in block_cache, and block_cache holds at most
\* rms_window_size / RMS_BLOCK_SIZE entries (a push onto a full cache
\* evicts the oldest entry and subtracts exactly it).
C25_BlockSumIsSumOfCache ==
    /\ BlockSumConsistent(left_rms_cache)
    /\ BlockSumConsistent(right_rms_cache)

\* Both caches are full and have evicted a block: more than a window and a
\* block of samples were fed since the reset.
C25_Witness ==
    /\ call = "process" /\ ~rms_panicked
    /\ HoldsFullWindow(left_rms_cache) /\ HoldsFullWindow(right_rms_cache)
    /\ fed_left >= rms_window_size + RMS_BLOCK_SIZE
    /\ fed_right >= rms_window_size + RMS_BLOCK_SIZE
    /\ left_rms_cache[1].block_sum > 0

\* The sum of squares of the k-th run of RMS_BLOCK_SIZE consecutive samples
\* of a stream.
BlockInOrder(stream, k) ==
    SumSq(SubSeq(stream, (k - 1) * RMS_BLOCK_SIZE + 1, k * RMS_BLOCK_SIZE))

\* The last n block sums of a stream cut into blocks in arrival order.
LastBlocksInOrder(stream, n) ==
    [i \in 1..n |-> BlockInOrder(stream, Len(stream) \div RMS_BLOCK_SIZE - n + i)]

\* C29 as claimed: after every process call that returned, the cached
\* block sums are those of consecutive runs of RMS_BLOCK_SIZE samples of
\* the stream in arrival order (staged samples first, then s1, then s2),
\* the samples beyond the last whole block are the staged ones, and
\* smps_not_cached < RMS_BLOCK_SIZE.
C29_BlocksInArrivalOrder ==
    (~rms_panicked /\ left_rms_cache # None) =>
        /\ left_rms_cache[1].smps_not_cached < RMS_BLOCK_SIZE
        /\ left_rms_cache[1].smps_not_cached = Len(stream_left) % RMS_BLOCK_SIZE
        /\ SubSeq(left_rms_cache[1].smps_to_cache, 1, left_rms_cache[1].smps_not_cached)
             = SubSeq(stream_left,
                      Len(stream_left) - left_rms_cache[1].smps_not_cached + 1,
                      Len(stream_left))
        /\ left_rms_cache[1].block_cache
             = LastBlocksInOrder(stream_left, Len(left_rms_cache[1].block_cache))

\* ---------------------------------------------------------------------
\* The oscilloscope's window counter
\* ---------------------------------------------------------------------

\* The windows the left channel has been given, in units of 1 / PhaseDen.
WindowsFedLeft == scope_fed_left * (PhaseDen \div WindowLen(params))

\* C21 (as stated): while the parameters are those of construction, the
\* samples written to the left channel are the windows found due plus the
\* counter, times the window length: each due call takes exactly 1.0 off
\* the counter.
C21_SamplesArePlotsPlusCounter ==
    (scope_changes = 0 /\ left_channel # None) =>
        WindowsFedLeft = scope_due_left * PhaseDen + left_channel[1].latest_window_phase

\* C21 (amended): a call that writes n samples to the left channel finds a
\* window due exactly when counter + n / (window_size * sample_rate)
\* reaches 1.0, draws the plot then and only then, and leaves the
\* fractional part of that sum in the counter, every whole window dropped;
\* so the windows found due plus the counter never exceed the samples
\* written.
C21_CounterKeepsFraction ==
    [][(scope_call'.op = "update" /\ left_active' /\ left_channel # None) =>
          /\ left_channel'[1].latest_window_phase =
                (left_channel[1].latest_window_phase
                 + (scope_fed_left' - scope_fed_left) * (PhaseDen \div WindowLen(params)))
                % PhaseDen
          /\ due'[1] =
                (left_channel[1].latest_window_phase
                 + (scope_fed_left' - scope_fed_left) * (PhaseDen \div WindowLen(params))
                 >= PhaseDen)
          /\ (params.mode = "MonoOrLeftOnly" /\ ~scope_call'.skip_plotting) =>
                left_plot' = IF due'[1]
                             THEN Drawn(left_channel'[1], Len(left_plot), params)
                             ELSE left_plot
          /\ scope_changes = 0 =>
                scope_due_left' * PhaseDen + left_channel'[1].latest_window_phase
                    <= scope_fed_left' * (PhaseDen \div WindowLen(params))]_vars

\* One call has taken the counter of the left channel from 0.5 to 2.0: two
\* windows of samples, one window found due, nothing left in the counter.
C21_Witness ==
    /\ scope_call.op = "update"
    /\ scope_changes = 0
    /\ left_channel # None
    /\ due[1]
    /\ scope_due_left = 1
    /\ WindowsFedLeft = 2 * PhaseDen
    /\ left_channel[1].latest_window_phase = 0

\* ---------------------------------------------------------------------
\* The oscilloscope's allocation
\* ---------------------------------------------------------------------

\* C27: the left channel is allocated exactly when the mode is not
\* RightOnly, the right channel exactly when it is not MonoOrLeftOnly, and
\* the temporary plots exactly when it is StereoToMono: after construction
\* and after every call.
C27_AllocationFollowsMode ==
    /\ (left_channel # None) <=> (params.mode # "RightOnly")
    /\ (right_channel # None) <=> (params.mode # "MonoOrLeftOnly")
    /\ (temp_plots # None) <=> (params.mode = "StereoToMono")

\* set_mode(RightOnly) on a detector whose left channel had found a window
\* due: the left channel is gone, the right one is there.
C27_Witness ==
    /\ scope_call.op = "set_mode"
    /\ scope_due_left > 0
    /\ params.mode = "RightOnly"
    /\ left_channel = None
    /\ right_channel # None
    /\ temp_plots = None

\* ---------------------------------------------------------------------
\* The oscilloscope's history cursor
\* ---------------------------------------------------------------------

\* C26: buffer_i of the left channel is an index of its history buffer and
\* is one past the latest sample: the sample written k ticks ago, k within
\* the buffer's length, is at buffer_i - k modulo the length.
C26_CursorOnePastLatest ==
    left_channel # None =>
        /\ left_channel[1].buffer_i >= 0
        /\ left_channel[1].buffer_i < Len(left_channel[1].buffer)
        /\ \A k \in 1..Len(left_channel[1].buffer) :
              k <= scope_written_left =>
                 left_channel[1].buffer[
                     ((left_channel[1].buffer_i - k) % Len(left_channel[1].buffer)) + 1]
                 = scope_fed_left - k + 1

\* ---------------------------------------------------------------------
\* The oscilloscope's plots
\* ---------------------------------------------------------------------

\* C28: an update in which no channel finds a window due leaves left_plot
\* and right_plot as they were, in every mode.
C28_NoWindowNoPlotChange ==
    [][(scope_call'.op = "update" /\ ~due'[1] /\ ~due'[2]) =>
          (left_plot' = left_plot /\ right_plot' = right_plot)]_vars

\* C23: an update in mode StereoToMono with both streams and the plots
\* given leaves in left_plot, point by point, half the sum of the two
\* channels' resampled windows (those of the temporary plots, which a
\* channel whose window is due has just drawn), and in right_plot, when
\* there is one, a copy of left_plot.
C23_StereoPlotIsMean ==
    [][(/\ scope_call'.op = "update"
        /\ ~scope_call'.skip_plotting
        /\ params.mode = "StereoToMono"
        /\ left_active'
        /\ right_active') =>
          /\ due'[1] => temp_plots'[1][1] = Drawn(left_channel'[1], Len(left_plot), params)
          /\ due'[2] => temp_plots'[1][2] = Drawn(right_channel'[1], Len(left_plot), params)
          /\ Len(left_plot') = Len(left_plot)
          /\ \A i \in 1..Len(left_plot) :
                2 * left_plot'[i] = temp_plots'[1][1][i] + temp_plots'[1][2][i]
          /\ right_plot # None => right_plot' = Some(left_plot')]_vars

\* Both windows were due in an update in mode StereoToMono: the two
\* windows differ, and both plots hold their mean.
C23_Witness ==
    /\ scope_call.op = "update"
    /\ ~scope_call.skip_plotting
    /\ params.mode = "StereoToMono"
    /\ left_active /\ right_active
    /\ due = <<TRUE, TRUE>>
    /\ temp_plots[1][1] = Drawn(left_channel[1], Len(left_plot), params)
    /\ temp_plots[1][2] = Drawn(right_channel[1], Len(left_plot), params)
    /\ temp_plots[1][1] # temp_plots[1][2]
    /\ left_plot[1] # 0
    /\ right_plot = Some(left_plot)

\* ---------------------------------------------------------------------
\* The two channels of mode Dual
\* ---------------------------------------------------------------------

\* Other batches the left stream might have handed over, and other states
\* of the right stream.
OtherLeftBatches == {StreamBatch(0, n, 0, 3) : n \in 0..MaxScopeBatch}
OtherRightStreams == {None} \cup {Some(StreamBatch(0, n, 0, -5)) : n \in 0..MaxScopeBatch}

\* The right channel and the right plot, and the left channel and the left
\* plot, once Detector::process, given the plots g, has returned o.
RightSideAfter(o, g) ==
    <<o.right_channel, IF g.right = None THEN right_plot ELSE o.right_plot>>
LeftSideAfter(o) ==
    <<o.left_channel, IF o.left_plot = None THEN left_plot ELSE o.left_plot[1]>>

\* C22: in mode Dual the right channel and the right plot after a call are
\* those the call would have left with any other left batch, and the left
\* channel and the left plot are those it would have left with any other
\* right stream (absent, or holding any other batch).
C22_DualChannelsIndependent ==
    [][(scope_call'.op = "update" /\ left_active' /\ params.mode = "Dual") =>
          /\ \A alt \in OtherLeftBatches :
                RightSideAfter(
                    detector_process(Detector, Some(alt),
                        IF right_active'
                        THEN Some(StreamBatch(scope_fed_right,
                                              scope_fed_right' - scope_fed_right, 0, -2))
                        ELSE None,
                        PlotsGiven(scope_call'.skip_plotting).left,
                        PlotsGiven(scope_call'.skip_plotting).right),
                    PlotsGiven(scope_call'.skip_plotting))
                = <<right_channel', right_plot'>>
          /\ \A alt \in OtherRightStreams :
                LeftSideAfter(
                    detector_process(Detector,
                        Some(StreamBatch(scope_fed_left, scope_fed_left' - scope_fed_left, 0, 1)),
                        alt,
                        PlotsGiven(scope_call'.skip_plotting).left,
                        PlotsGiven(scope_call'.skip_plotting).right))
                = <<left_channel', left_plot'>>]_vars

\* An update in mode Dual has drawn both windows, each into its own plot.
C22_Witness ==
    /\ scope_call.op = "update"
    /\ ~scope_call.skip_plotting
    /\ params.mode = "Dual"
    /\ left_active /\ right_active
    /\ due = <<TRUE, TRUE>>
    /\ right_plot # None
    /\ left_plot = Drawn(left_channel[1], Len(left_plot), params)
    /\ right_plot[1] = Drawn(right_channel[1], Len(left_plot), params)
    /\ left_plot # right_plot[1]

\* ---------------------------------------------------------------------
\* The window the oscilloscope resamples
\* ---------------------------------------------------------------------

\* The position, in units of 1 / PlotDen of a sample and before any
\* wrapping, of the k-th point of the window a channel resamples:
\* buffer_i - time_offset * sample_rate, and plot_index_delta on for each
\* point.
WindowPoint(channel, k, p) ==
    channel.buffer_i * PlotDen
    - TimeOffsetSamples(WindowPhase(channel.latest_window_phase + p.phase), p)
    + (k - 1) * (PlotDen \div ScopeResolution) * WindowLen(p)

\* The k-th point as Channel::process reads it, after a negative index
\* has been constrained.
WindowPointRead(channel, k, p) ==
    FloatIndex(channel, p) + (k - 1) * (PlotDen \div ScopeResolution) * WindowLen(p)

\* The window a channel resamples lies in the two windows of history
\* behind buffer_i, which the buffer holds.
WindowInsideHistory(channel, p) ==
    /\ 2 * WindowLen(p) <= Len(channel.buffer)
    /\ WindowPoint(channel, 1, p) >= (channel.buffer_i - 2 * WindowLen(p)) * PlotDen
    /\ \A k \in 1..ScopeResolution :
          /\ WindowPoint(channel, k, p) \div PlotDen >= channel.buffer_i - 2 * WindowLen(p)
          /\ WindowPoint(channel, k, p) \div PlotDen + 1 <= channel.buffer_i
          /\ constrain(channel.buffer, WindowPointRead(channel, k, p) \div PlotDen)
                = constrain(channel.buffer, WindowPoint(channel, k, p) \div PlotDen)
          /\ WindowPointRead(channel, k, p) % PlotDen = WindowPoint(channel, k, p) % PlotDen

\* C30: when a call has found a channel's window due, the window that
\* channel resamples starts no earlier than buffer_i - 2 * window_size *
\* sample_rate, and every index read (the floor of a point and the one
\* after it) is at most buffer_i, for every phase from 0 to 1 inclusive
\* and every remainder of the window counter.
C30_WindowInsideHistory ==
    scope_call.op = "update" =>
        /\ due[1] => WindowInsideHistory(left_channel[1], params)
        /\ due[2] => WindowInsideHistory(right_channel[1], params)

\* A window was due and drawn under a phase of exactly 1, half a window
\* left in the counter.
C30_Witness ==
    /\ scope_call.op = "update"
    /\ ~scope_call.skip_plotting
    /\ params.mode = "MonoOrLeftOnly"
    /\ params.phase = PhaseDen
    /\ due[1]
    /\ left_channel[1].latest_window_phase = PhaseDen \div 2
    /\ left_plot = Drawn(left_channel[1], Len(left_plot), params)
    /\ left_plot[1] # 0

\* ---------------------------------------------------------------------
\* The scrolling waveform view (rt_wave_view)
\* ---------------------------------------------------------------------

RECURSIVE MaxOf(_)
MaxOf(s) ==
    IF Len(s) = 1 THEN s[1]
    ELSE IF Head(s) > MaxOf(Tail(s)) THEN Head(s) ELSE MaxOf(Tail(s))

RECURSIVE MinOf(_)
MinOf(s) ==
    IF Len(s) = 1 THEN s[1]
    ELSE IF Head(s) < MinOf(Tail(s)) THEN Head(s) ELSE MinOf(Tail(s))

\* min_max(s): the PlotPoint of a slice; of an empty slice, the limits it
\* starts from.
min_max(s) ==
    IF s = <<>> THEN [max |-> "f32::MIN", min |-> "f32::MAX"]
    ELSE [max |-> MaxOf(s), min |-> MinOf(s)]

\* Plot::write_to_next(len), n for len: start_index moves on by n,
\* constrained to the buffer; the slots handed out are the n from the old
\* start_index.
write_to_next(plot, n) ==
    [plot  |-> [plot EXCEPT !.start_index = (plot.start_index + n) % Len(plot.buffer)],
     slots |-> [j \in 1..Min(n, Len(plot.buffer)) |->
                   ((plot.start_index + j - 1) % Len(plot.buffer)) + 1]]

\* num_new_plot_points = num_smps * (plot.len() / window_size) / sample_rate:
\* its whole part.
num_new_plot_points(num_smps, plot, p) ==
    (num_smps * Len(plot.buffer)) \div (p.window_size * p.sample_rate)

\* PeakDetector::process(left_stream, right_stream, left_plot, right_plot):
\* in mode MonoOrLeftOnly with a plot, the closure finds num_smps and
\* num_new_plot_points and ends there; the arms of the other modes are
\* empty.  The plots are returned as given.
wave_process(p, l, r, lp, rp) == [left_plot |-> lp, right_plot |-> rp]

\* Animator::update(delta_gui_time, wave_view, left_stream, right_stream,
\* skip_plotting) of the RtWaveView; l and r are None or Some(batch).
wave_update(l, r, skip_plotting) ==
    /\ wave_call' = [op |-> "update", skip_plotting |-> skip_plotting]
    /\ wave_left_active' = (l # None)
    /\ wave_right_active' = (r # None)
    /\ IF l # None /\ ~skip_plotting
       THEN /\ wave_left_plot' =
                  wave_process(wave_params, l, r, Some(wave_left_plot),
                               wave_right_plot).left_plot[1]
            /\ wave_right_plot' =
                  wave_process(wave_params, l, r, Some(wave_left_plot),
                               wave_right_plot).right_plot
       ELSE UNCHANGED <<wave_left_plot, wave_right_plot>>
    /\ wave_fed' = wave_fed + (IF l = None THEN 0 ELSE BatchLen(l[1]))
    /\ UNCHANGED wave_params
    /\ UNCHANGED <<ringVars, prodVars, consVars, histVars, peakVars, rmsVars, scopeVars>>

\* What a setter or clear of the RtWaveView's Animator leaves alone.
WaveSetterFrame(op) ==
    /\ wave_call' = [op |-> op, skip_plotting |-> FALSE]
    /\ UNCHANGED <<wave_left_plot, wave_right_plot, wave_left_active, wave_right_active,
                   wave_fed>>
    /\ UNCHANGED <<ringVars, prodVars, consVars, histVars, peakVars, rmsVars, scopeVars>>

\* PeakDetector::set_mode(mode)
wave_set_mode(mode) ==
    /\ wave_params' = [wave_params EXCEPT !.mode = mode]
    /\ WaveSetterFrame("set_mode")

\* Animator::set_gain -> PeakDetector::set_gain(gain)
wave_set_gain(gain) ==
    /\ wave_params' = [wave_params EXCEPT !.gain = gain]
    /\ WaveSetterFrame("set_gain")

\* Animator::set_window_size -> PeakDetector::set_window_size: an empty body.
wave_set_window_size(window_size) ==
    /\ UNCHANGED wave_params
    /\ WaveSetterFrame("set_window_size")

\* Animator::set_sample_rate -> PeakDetector::set_sample_rate: an empty body.
wave_set_sample_rate(rate) ==
    /\ UNCHANGED wave_params
    /\ WaveSetterFrame("set_sample_rate")

\* Animator::clear -> PeakDetector::clear: an empty body.
wave_clear ==
    /\ UNCHANGED wave_params
    /\ WaveSetterFrame("clear")

\* PeakDetector::new in some mode, and State::new with or without a
\* second plot.
InitWaveAny ==
    \E mode \in Modes, dual_plots \in BOOLEAN :
        WaveConstructed([gain |-> 1, mode |-> mode, sample_rate |-> 4, window_size |-> 1],
                        dual_plots)

NextWave ==
    \/ \E n \in BatchShapes(wave_fed), with_right \in BOOLEAN, skip_plotting \in BOOLEAN :
            wave_update(
                Some(StreamBatch(wave_fed, n[1], n[2], 1)),
                IF with_right THEN Some(StreamBatch(wave_fed, n[1], n[2], -2)) ELSE None,
                skip_plotting)
    \/ \E with_right \in BOOLEAN, skip_plotting \in BOOLEAN :
            wave_update(None, IF with_right THEN Some(<<<<>>, <<>>>>) ELSE None,
                        skip_plotting)
    \/ \E mode \in Modes : wave_set_mode(mode)
    \/ \E gain \in ScopeGains : wave_set_gain(gain)
    \/ \E window_size \in ScopeWindowSizes : wave_set_window_size(window_size)
    \/ \E rate \in ScopeSampleRates : wave_set_sample_rate(rate)
    \/ wave_clear

InitWaveCall ==
    /\ InitStream
    /\ InitPeak
    /\ InitRms
    /\ InitScope
    /\ InitWaveAny

SpecWave == InitWaveCall /\ [][NextWave]_vars

\* The j-th of n spans of the samples wave_fed + 1 .. wave_fed' that an
\* update has read from the left stream.
NewSpan(j, n) ==
    [i \in 1..((j * (wave_fed' - wave_fed)) \div n - ((j - 1) * (wave_fed' - wave_fed)) \div n)
        |-> wave_fed + ((j - 1) * (wave_fed' - wave_fed)) \div n + i]

\* C24: an update in mode MonoOrLeftOnly that reads N samples and is given
\* the plot moves the plot's start_index on by the number of new points,
\* N * (R / window_size) / sample_rate, modulo R, and leaves in the slots
\* from the old start_index the min and max of the successive spans of the
\* new samples.
C24_NewPointsWritten ==
    [][(/\ wave_call'.op = "update"
        /\ ~wave_call'.skip_plotting
        /\ wave_left_active'
        /\ wave_params.mode = "MonoOrLeftOnly") =>
          /\ wave_left_plot'.start_index =
                write_to_next(wave_left_plot,
                    num_new_plot_points(wave_fed' - wave_fed, wave_left_plot, wave_params)
                ).plot.start_index
          /\ \A j \in 1..Min(num_new_plot_points(wave_fed' - wave_fed, wave_left_plot,
                                                 wave_params), WaveResolution) :
                wave_left_plot'.buffer[
                    write_to_next(wave_left_plot,
                        num_new_plot_points(wave_fed' - wave_fed, wave_left_plot, wave_params)
                    ).slots[j]]
                = min_max(NewSpan(j, num_new_plot_points(wave_fed' - wave_fed,
                                                         wave_left_plot, wave_params)))]_vars

=============================================================================
